---- MODULE Spec2Model ----
(***************************************************************************)
(* Model of the portfolio site's behaviour layer (js modules               *)
(* notifications.js, projects.js, security.js, validation.js):             *)
(*   - the notification system (showMessage and its expiry timers),        *)
(*   - the project cards (developProject, toggleProjectBox),               *)
(*   - the contact-form validation (validateContactForm).                  *)
(* Each component has its own specification over the shared variables.     *)
(* Text is a sequence of one-character strings, so that trimming,          *)
(* escaping and pattern matching are computed character by character.      *)
(***************************************************************************)
EXTENDS Integers, Sequences, FiniteSets, TLC

(***************************************************************************)
(* Bounds of the model.                                                    *)
(***************************************************************************)
\* Largest number of showMessage calls in one behaviour.
MaxCalls == 2
\* Largest number of cards inserted into the document.
MaxCards == 2
\* Largest number of toggleProjectBox calls in one behaviour.
MaxToggles == 3
\* Largest number of sendEmail calls in one behaviour.
MaxSends == 2
\* Largest number of skill elements in the document.
MaxSkillElements == 2
\* Longest text given to escapeHtml.
MaxTextLen == 3
\* Largest number of developProject calls that reach the id generation.
MaxProjects == 3
\* Largest number of switchLanguage calls in one behaviour.
MaxSwitches == 2
\* Largest number of project boxes the hover listeners are bound to.
MaxBoxes == 2
\* Largest number of listener pairs attachHighlightListeners registers.
MaxBindings == 2
\* Largest number of clicks in one behaviour.
MaxClicks == 2

VARIABLES
    \* ---- notifications.js ------------------------------------------------
    bodyReady,      \* document.body exists
    domLoaded,      \* DOMContentLoaded has been dispatched
    inDoc,          \* inDoc[k]: an element with id "<k>-message" is in the document
    textContent,    \* textContent[k] of that element
    display,        \* style.display of that element: "" | "block" | "none"
    messageTimers,  \* messageTimers[k]: last handle returned by setTimeout, or NoTimer
    timers,         \* the pending timeouts: records [id, type, left]
    nextId,         \* the next handle setTimeout returns
    listeners,      \* pending DOMContentLoaded listeners (once), in registration order
    calls,          \* number of showMessage calls so far
    lastCall,       \* lastCall[k]: the text of the most recent showMessage(k, text), or NoText
    sinceCall,      \* sinceCall[k]: seconds since the most recent showMessage(k, ..), up to Duration
    sinceShown,     \* sinceShown[k]: seconds since element k was last displayed, up to Duration
    lastOp,         \* the last showMessage, listener dispatch or expiry: [op, type]
    \* ---- projects.js ------------------------------------------------------
    cards,          \* the cards in the document: a sequence of card elements
    toggles,        \* number of toggleProjectBox calls so far
    markup,         \* what the last developProject call returned: <<>> for '', else <<card>>
    \* ---- validation.js ----------------------------------------------------
    formCall,       \* <<>>, or <<the arguments of the last validateContactForm call>>
    formResult,     \* what it returned: <<>> for false, else <<the object>>
    formErrors,     \* the messages it passed to showError, in order
    phoneCall,      \* <<>>, or <<the argument of the isValidPhoneNumber call>>
    phoneResult,    \* what isValidPhoneNumber returned
    \* ---- projects.js: developProject as a function --------------------------
    devCall,        \* <<>>, or <<the arguments of the developProject call>>
    devResult,      \* its outcome: [html, error, threw]
    \* ---- projects.js: highlightSkill --------------------------------------
    skillElements,  \* the elements with a data-skill attribute in the document
    hover,          \* <<>>, or <<the last highlightSkill call, the number of skill
                    \* elements the document had, and what the call matched>>
    \* ---- email.js ---------------------------------------------------------
    emailjs,        \* typeof emailjs: "undefined" | "object"
    hostname,       \* location.hostname
    serviceID,      \* the three credentials written in sendEmail
    templateID,
    publicKey,
    contactForm,    \* the element with id contact-form: "absent" | "filled" | "empty"
    emailJsInitialized,
    mailCalls,      \* number of sendEmail calls so far
    outstanding,    \* the calls whose emailjs.send promise is not settled yet
    mailLog,        \* what the calls did, in order: events [call, ev, text, data]
    \* ---- security.js: escapeHtml as a function ------------------------------
    escCall,        \* <<>>, or <<the argument of the escapeHtml call>>
    escResult,      \* what escapeHtml returned
    \* ---- constants.js, projects.js: card ids ---------------------------------
    hasCrypto,      \* typeof crypto !== 'undefined' && crypto.randomUUID
    now,            \* what Date.now() returns
    projectCounter, \* the module-level counter of constants.js
    idCalls,        \* number of developProject calls that generated an id
    ids,            \* the root ids of the markup the successful calls returned, in
                    \* order: records [id, at, counter]
    \* ---- language.js ---------------------------------------------------------
    location,       \* window.location.href
    langLog,        \* the switchLanguage calls, in order: records
                    \* [lang, from, to, navigated, error]
    \* ---- projects.js: attachHighlightListeners -------------------------------
    boxes,          \* the project boxes in the document: records [skillList]
    hovered,        \* the boxes the pointer is inside
    bindings,       \* the listener pairs registered, in order: records
                    \* [box, skillList, active, elements]; active: the mouseenter
                    \* listener ran and the mouseleave listener has not since;
                    \* elements: the number of skill elements at that mouseenter
    lastAttach,     \* <<>>, or <<[projectId, outcome]>> of the last
                    \* attachHighlightListeners call
    onceElements,   \* the skill elements as they would be, had every box and
                    \* skill list been bound once only
    \* ---- main.js -------------------------------------------------------------
    mainLoaded,     \* the module has been evaluated
    initPending,    \* init is registered as a DOMContentLoaded listener
    isInitialized,
    clickHandlers,  \* number of click listeners initProjectToggle added to the document
    initWarned,     \* the last initProjectToggle call warned 'already initialized'
    clickCount,     \* number of clicks so far
    lastClick,      \* <<>>, or <<the target of the last click>>: the position of the
                    \* card clicked in, 0 for a click outside every card
    \* ---- projects.js: toggleProjectBox calls of page scripts ------------------
    lastToggle      \* <<>>, or <<[target, threw]>> of the last such call: the position
                    \* of the card passed, 0 for null, and whether the call threw

notifyVars == <<bodyReady, domLoaded, inDoc, textContent, display, messageTimers,
                timers, nextId, listeners, calls, lastCall, sinceCall, sinceShown, lastOp>>
cardVars == <<cards, toggles, markup>>
formVars == <<formCall, formResult, formErrors>>
phoneVars == <<phoneCall, phoneResult>>
renderVars == <<devCall, devResult>>
skillVars == <<skillElements, hover>>
mailVars == <<emailjs, hostname, serviceID, templateID, publicKey, contactForm,
              emailJsInitialized, mailCalls, outstanding, mailLog>>
escapeVars == <<escCall, escResult>>
idVars == <<hasCrypto, now, projectCounter, idCalls, ids>>
langVars == <<location, langLog>>
hoverVars == <<boxes, hovered, bindings, lastAttach, onceElements>>
initVars == <<mainLoaded, initPending, isInitialized, clickHandlers, initWarned, clickCount,
              lastClick>>
toggleVars == <<lastToggle>>
vars == <<notifyVars, cardVars, formVars, phoneVars, renderVars, skillVars, mailVars,
          escapeVars, idVars, langVars, hoverVars, initVars, toggleVars>>

(***************************************************************************)
(* notifications.js                                                        *)
(***************************************************************************)
Kinds == {"error", "success", "info"}

\* The message texts the callers pass.
Texts == {<<"a">>, <<"b">>}

\* No message yet.
NoText == <<>>

\* messageTimers[k] = null
NoTimer == 0

\* showMessage's default duration (5000 ms), in seconds.
Duration == 5

\* clearTimeout(handle): the pending timeouts without the one of that handle.
clearTimeout(pending, handle) == {t \in pending : t.id # handle}

\* "Clear existing timer for this message type".
ClearOmitted(pending, handle) == pending

ClearExistingTimer(pending, handle) ==
    IF handle # NoTimer THEN clearTimeout(pending, handle) ELSE pending

\* setTimeout(callback, duration): the seconds left before the callback may run.
DelayShort == Duration - 1

Delay == Duration

Min(a, b) == IF a < b THEN a ELSE b

Max(a, b) == IF a > b THEN a ELSE b

\* The timeout's callback: messageDiv.style.display = 'none' for the div it closed over.
HideAll(disp, type) == [k \in Kinds |-> IF disp[k] = "" THEN "" ELSE "none"]

HideMessage(disp, type) == [disp EXCEPT ![type] = "none"]

\* The document and timer state that showMessage and its listeners work on.
NotifyState ==
    [inDoc |-> inDoc, textContent |-> textContent, display |-> display,
     messageTimers |-> messageTimers, timers |-> timers, nextId |-> nextId,
     sinceShown |-> sinceShown]

\* The DOMContentLoaded listener registered by a showMessage call made before
\* document.body existed: it inserts and shows its own div only if no element
\* with the id is in the document yet, and sets the timer without clearing.
DeferredShow(l, st) ==
    IF ~st.inDoc[l.type]
    THEN [st EXCEPT !.inDoc[l.type] = TRUE,
                    !.textContent[l.type] = l.message,
                    !.display[l.type] = "block",
                    !.messageTimers[l.type] = st.nextId,
                    !.timers = st.timers \cup
                        {[id |-> st.nextId, type |-> l.type, left |-> Delay]},
                    !.nextId = st.nextId + 1,
                    !.sinceShown[l.type] = 0]
    ELSE st

RECURSIVE RunListeners(_, _)
RunListeners(ls, st) ==
    IF ls = <<>> THEN st ELSE RunListeners(Tail(ls), DeferredShow(Head(ls), st))

\* showMessage(type, message, duration = 5000)
showMessage(type, message) ==
    /\ calls < MaxCalls
    /\ calls' = calls + 1
    /\ lastCall' = [lastCall EXCEPT ![type] = message]
    /\ sinceCall' = [sinceCall EXCEPT ![type] = 0]
    /\ lastOp' = [op |-> "showMessage", type |-> type]
    /\ IF ~inDoc[type] /\ ~bodyReady
       THEN \* body not ready: wait for DOM, exit early
            /\ listeners' = Append(listeners, [type |-> type, message |-> message])
            /\ UNCHANGED <<inDoc, textContent, display, messageTimers, timers, nextId,
                           sinceShown>>
       ELSE /\ inDoc' = [inDoc EXCEPT ![type] = TRUE]
            /\ textContent' = [textContent EXCEPT ![type] = message]
            /\ display' = [display EXCEPT ![type] = "block"]
            /\ timers' = ClearExistingTimer(timers, messageTimers[type]) \cup
                            {[id |-> nextId, type |-> type, left |-> Delay]}
            /\ messageTimers' = [messageTimers EXCEPT ![type] = nextId]
            /\ nextId' = nextId + 1
            /\ sinceShown' = [sinceShown EXCEPT ![type] = 0]
            /\ UNCHANGED listeners
    /\ UNCHANGED <<bodyReady, domLoaded, cardVars, formVars,
                   phoneVars, renderVars, skillVars, mailVars, escapeVars, idVars,
                   langVars, hoverVars, initVars, toggleVars>>

showError(message) == showMessage("error", message)

showSuccess(message) == showMessage("success", message)

showInfo(message) == showMessage("info", message)

\* initProjectToggle without the isInitialized test.
InitProjectToggleUnguarded(initialized, handlers) ==
    [isInitialized |-> TRUE, clickHandlers |-> handlers + 1, warned |-> FALSE]

\* main.js, initProjectToggle(): the flag, the number of click listeners on the
\* document and whether it warned, afterwards.
initProjectToggle(initialized, handlers) ==
    IF initialized
    THEN [isInitialized |-> TRUE, clickHandlers |-> handlers, warned |-> TRUE]
    ELSE [isInitialized |-> TRUE, clickHandlers |-> handlers + 1, warned |-> FALSE]

\* main.js, init()
init(initialized, handlers) == initProjectToggle(initialized, handlers)

\* The parser creates document.body.
BodyParsed ==
    /\ ~bodyReady
    /\ bodyReady' = TRUE
    /\ UNCHANGED <<lastOp, domLoaded, inDoc, textContent, display, messageTimers, timers,
                   nextId, listeners, calls, lastCall, sinceCall, sinceShown, cardVars,
                   formVars, phoneVars, renderVars, skillVars, mailVars, escapeVars,
                   idVars, langVars, hoverVars, initVars, toggleVars>>

\* The document dispatches DOMContentLoaded: every registered listener runs, in
\* registration order, and is removed (once: true).
DOMContentLoaded ==
    /\ bodyReady
    /\ ~domLoaded
    /\ domLoaded' = TRUE
    /\ LET st == RunListeners(listeners, NotifyState)
       IN /\ inDoc' = st.inDoc
          /\ textContent' = st.textContent
          /\ display' = st.display
          /\ messageTimers' = st.messageTimers
          /\ timers' = st.timers
          /\ nextId' = st.nextId
          /\ sinceShown' = st.sinceShown
    /\ listeners' = <<>>
    /\ lastOp' = [op |-> "DOMContentLoaded", type |-> "-"]
    /\ IF initPending
       THEN LET r == init(isInitialized, clickHandlers)
            IN /\ isInitialized' = r.isInitialized
               /\ clickHandlers' = r.clickHandlers
               /\ initWarned' = r.warned
       ELSE UNCHANGED <<isInitialized, clickHandlers, initWarned>>
    /\ UNCHANGED <<bodyReady, calls, lastCall, sinceCall, cardVars, formVars,
                   phoneVars, renderVars, skillVars, mailVars, escapeVars, idVars,
                   langVars, hoverVars, mainLoaded, initPending, clickCount, lastClick,
                   toggleVars>>

\* A pending timeout whose delay has elapsed runs its callback (no earlier, maybe later).
Expire(t) ==
    /\ t \in timers
    /\ t.left = 0
    /\ timers' = timers \ {t}
    /\ display' = HideMessage(display, t.type)
    /\ lastOp' = [op |-> "Expire", type |-> t.type]
    /\ UNCHANGED <<bodyReady, domLoaded, inDoc, textContent, messageTimers, nextId,
                   listeners, calls, lastCall, sinceCall, sinceShown, cardVars, formVars,
                   phoneVars, renderVars, skillVars, mailVars, escapeVars, idVars,
                   langVars, hoverVars, initVars, toggleVars>>

\* One second passes: every pending timeout has one second less to wait.
Tick ==
    /\ timers' = {[t EXCEPT !.left = Max(0, t.left - 1)] : t \in timers}
    /\ sinceCall' = [k \in Kinds |-> Min(Duration, sinceCall[k] + 1)]
    /\ sinceShown' = [k \in Kinds |-> Min(Duration, sinceShown[k] + 1)]
    /\ UNCHANGED <<lastOp, bodyReady, domLoaded, inDoc, textContent, display, messageTimers,
                   nextId, listeners, calls, lastCall, cardVars, formVars,
                   phoneVars, renderVars, skillVars, mailVars, escapeVars, idVars,
                   langVars, hoverVars, initVars, toggleVars>>

(***************************************************************************)
(* security.js                                                             *)
(***************************************************************************)
\* Values that are not strings: null, undefined, a number.
Null == <<"#null">>

Undefined == <<"#undefined">>

NotAString == <<"#number">>

NonStrings == {Null, Undefined, NotAString}

\* The map without its first entry: & is left as it is.
EntityOfKeepingAmp(c) ==
    CASE c = "<" -> <<"&", "l", "t", ";">>
      [] c = ">" -> <<"&", "g", "t", ";">>
      [] c = "\"" -> <<"&", "q", "u", "o", "t", ";">>
      [] c = "'" -> <<"&", "#", "0", "3", "9", ";">>
      [] OTHER -> <<c>>

\* The entity escapeHtml's map gives a character, the character itself otherwise.
EntityOf(c) ==
    CASE c = "&" -> <<"&", "a", "m", "p", ";">>
      [] c = "<" -> <<"&", "l", "t", ";">>
      [] c = ">" -> <<"&", "g", "t", ";">>
      [] c = "\"" -> <<"&", "q", "u", "o", "t", ";">>
      [] c = "'" -> <<"&", "#", "0", "3", "9", ";">>
      [] OTHER -> <<c>>

RECURSIVE EscapeChars(_)
EscapeChars(text) ==
    IF text = <<>> THEN <<>> ELSE EntityOf(Head(text)) \o EscapeChars(Tail(text))

\* escapeHtml(text): String(text ?? '') with & < > " ' replaced by their entities.
escapeHtml(text) ==
    IF text \in {Null, Undefined} THEN <<>> ELSE EscapeChars(text)

\* The texts the callers escape: null, undefined, every text of at most
\* MaxTextLen characters over the five special characters and some others, and
\* the texts that are already escaped.
EscapeAlphabet == {"&", "<", ">", "\"", "'", "l", "t", ";"}

EscapeInputs ==
    {Null, Undefined} \cup UNION {[1..n -> EscapeAlphabet] : n \in 0..MaxTextLen}
                      \cup {EscapeChars(<<c>>) : c \in EscapeAlphabet}

\* A caller calls escapeHtml. The function keeps no state, so a behaviour holds
\* one call.
EscapeHtml(text) ==
    /\ escCall = <<>>
    /\ escCall' = <<text>>
    /\ escResult' = escapeHtml(text)
    /\ UNCHANGED <<notifyVars, cardVars, formVars, phoneVars, renderVars, skillVars,
                   mailVars, idVars, langVars, hoverVars, initVars, toggleVars>>

\* The characters encodeURIComponent leaves as they are, among those of the model.
\* The white space String.prototype.trim and \s know, among the characters of
\* the model.
WhiteSpace == {" ", "\t"}

Digits == {"0", "1", "2", "3", "4", "5", "6", "7", "8", "9"}

Letters == {"A", "B", "C", "D", "E", "J", "N", "S", "T", "a", "b", "c", "j", "l", "s"}

Unreserved ==
    Letters \cup Digits \cup {"-", "_", ".", "!", "~", "*", "'", "(", ")"}

\* encodeURIComponent of one character: its UTF-8 bytes, percent-encoded.
PercentOf(c) ==
    CASE c \in Unreserved -> <<c>>
      [] c = " " -> <<"%", "2", "0">>
      [] c = "\"" -> <<"%", "2", "2">>
      [] c = "#" -> <<"%", "2", "3">>
      [] c = "%" -> <<"%", "2", "5">>
      [] c = "&" -> <<"%", "2", "6">>
      [] c = "+" -> <<"%", "2", "B">>
      [] c = "<" -> <<"%", "3", "C">>
      [] c = ">" -> <<"%", "3", "E">>

RECURSIVE PercentEncode(_)
PercentEncode(text) ==
    IF text = <<>> THEN <<>> ELSE PercentOf(Head(text)) \o PercentEncode(Tail(text))

\* A code unit that is a surrogate without its pair.
LoneSurrogate == "#D800"

\* The URIError encodeURIComponent throws, in place of its result.
URIError == <<"#URIError">>

\* encodeURIComponent(text): it throws on a text that is not well-formed UTF-16.
encodeURIComponent(text) ==
    IF \E i \in DOMAIN text : text[i] = LoneSurrogate THEN URIError ELSE PercentEncode(text)

\* normalizeSkillKey(skill)
normalizeSkillKey(skill) == encodeURIComponent(skill)

(***************************************************************************)
(* constants.js, projects.js                                               *)
(***************************************************************************)
PROJECT_STATE_LARGE == 1

PROJECT_STATE_SMALL == 0

PROJECT_TYPE_PERSONAL == 1

PROJECT_TYPE_SCHOOL == 0

\* An argument that is not an array.
NotAnArray == <<<<"#not-an-array">>>>

\* The arguments the callers pass to developProject, valid and invalid.
Bigs == {PROJECT_STATE_LARGE, PROJECT_STATE_SMALL, 2}

Types == {PROJECT_TYPE_PERSONAL, PROJECT_TYPE_SCHOOL, 2}

Categories == {<<"A", "&", "B">>, <<>>, NotAString}

ShortInfos == {<<"<", "s", ">">>, <<>>, Null}

LongInfos == {<<"l", "'", "\"">>, <<>>, Undefined}

SkillLists ==
    {<<>>, <<<<"C", "+", "+">>, <<"J", "S">>>>, <<<<"J", "S">>, <<LoneSurrogate>>>>, NotAnArray}

\* `${big}`: the number as the attribute's string.
NumberToString(n) ==
    CASE n = 0 -> "0"
      [] n = 1 -> "1"
      [] n = 2 -> "2"

\* !x || typeof x !== 'string'
MissingString(x) == x = <<>> \/ x \in NonStrings

\* skillList.map(skill => <span class="skill-tag" data-skill=key>text</span>)
RECURSIVE SkillTags(_)
SkillTags(skillList) ==
    IF skillList = <<>>
    THEN <<>>
    ELSE <<[key |-> normalizeSkillKey(Head(skillList)),
            text |-> escapeHtml(Head(skillList)),
            skill |-> Head(skillList)]>> \o SkillTags(Tail(skillList))

\* The markup with the two texts taken the other way round.
CardOfTextsSwapped(big, type, category, shortInfo, longInfo, skillList) ==
    LET sizeClass == IF big = PROJECT_STATE_LARGE THEN "project-large" ELSE "project-small"
    IN
    [classes |-> {"project-box", sizeClass},
     expanded |-> NumberToString(big),
     rendered |-> <<NumberToString(big), {"project-box", sizeClass}>>,
     toggle |-> "project",
     category |-> escapeHtml(category),
     typeLabel |-> IF type = PROJECT_TYPE_PERSONAL THEN "Personal Project"
                                                   ELSE "School Project",
     content |-> escapeHtml(IF big = PROJECT_STATE_LARGE THEN shortInfo ELSE longInfo),
     skills |-> SkillTags(skillList),
     big |-> big, shortInfo |-> shortInfo, longInfo |-> longInfo, clicks |-> 0]

\* The element the markup of a valid call describes; big, shortInfo and longInfo
\* (and skill in a skill tag) record the call's arguments, rendered the data-expanded value and classes of
\* the markup, and clicks counts the toggles of the element.
CardOf(big, type, category, shortInfo, longInfo, skillList) ==
    LET sizeClass == IF big = PROJECT_STATE_LARGE THEN "project-large" ELSE "project-small"
    IN
    [classes |-> {"project-box", sizeClass},
     expanded |-> NumberToString(big),
     rendered |-> <<NumberToString(big), {"project-box", sizeClass}>>,
     toggle |-> "project",
     category |-> escapeHtml(category),
     typeLabel |-> IF type = PROJECT_TYPE_PERSONAL THEN "Personal Project"
                                                   ELSE "School Project",
     content |-> escapeHtml(IF big = PROJECT_STATE_LARGE THEN longInfo ELSE shortInfo),
     skills |-> SkillTags(skillList),
     big |-> big, shortInfo |-> shortInfo, longInfo |-> longInfo, clicks |-> 0]

\* console.error(message); return ''
Rejected(message) == [html |-> <<>>, error |-> message, threw |-> ""]

\* The skillList.map callback throws on one of the skills.
SkillsThrow(skillList) ==
    \E i \in DOMAIN skillList : normalizeSkillKey(skillList[i]) = URIError

\* developProject(big, type, category, shortInfo, longInfo, skillList = []):
\* html is the markup it returns, '' (here <<>>) when a parameter is rejected,
\* error what it passes to console.error, threw the exception that leaves it.
developProject(big, type, category, shortInfo, longInfo, skillList) ==
    IF big # PROJECT_STATE_LARGE /\ big # PROJECT_STATE_SMALL
    THEN Rejected("Invalid size parameter. Use PROJECT_STATE.LARGE or PROJECT_STATE.SMALL")
    ELSE IF type # PROJECT_TYPE_PERSONAL /\ type # PROJECT_TYPE_SCHOOL
    THEN Rejected("Invalid type parameter. Use PROJECT_TYPE.PERSONAL or PROJECT_TYPE.SCHOOL")
    ELSE IF MissingString(category)
    THEN Rejected("Category is required and must be a string")
    ELSE IF MissingString(shortInfo)
    THEN Rejected("Short info is required and must be a string")
    ELSE IF MissingString(longInfo)
    THEN Rejected("Long info is required and must be a string")
    ELSE IF skillList = NotAnArray
    THEN Rejected("Skill list must be an array")
    ELSE IF SkillsThrow(skillList)
    THEN [html |-> <<>>, error |-> "", threw |-> "URIError"]
    ELSE [html |-> <<CardOf(big, type, category, shortInfo, longInfo, skillList)>>,
          error |-> "", threw |-> ""]

\* The decimal digits of a number, as `${n}` writes it.
DigitChars == <<"0", "1", "2", "3", "4", "5", "6", "7", "8", "9">>

RECURSIVE DecimalOf(_)
DecimalOf(n) ==
    IF n < 10 THEN <<DigitChars[n + 1]>>
    ELSE DecimalOf(n \div 10) \o <<DigitChars[(n % 10) + 1]>>

\* incrementProjectCounter(): ++projectCounter
incrementProjectCounter(counter) == counter + 1

\* The fallback id without the counter.
TimestampOnly(time, counter) == DecimalOf(time)

\* `${Date.now()}-${incrementProjectCounter()}`, counter being the value the
\* increment returned.
TimestampAndCounter(time, counter) == DecimalOf(time) \o <<"-">> \o DecimalOf(counter)

\* The values crypto.randomUUID() can return, shortened to three groups, and the
\* ones it has not returned yet: a version 4 UUID is 122 random bits, taken here
\* never to repeat within a page.
UUIDs == {<<DigitChars[k], "a", "-", "4", "b", "-", "c">> : k \in 1..(MaxProjects + 1)}

\* const projectId = `project-${uniqueId}`
projectId(uniqueId) == <<"p", "r", "o", "j", "e", "c", "t", "-">> \o uniqueId

\* developProject up to the id: a rejected call returns before it; a call that
\* passes the checks takes a UUID, or the time and the incremented counter, and
\* returns markup with that id unless a skill makes it throw afterwards.
CreateProject(big, type, category, shortInfo, longInfo, skillList, uuid) ==
    LET r == developProject(big, type, category, shortInfo, longInfo, skillList)
        generates == r.html # <<>> \/ r.threw # ""
        counter == IF hasCrypto THEN projectCounter
                   ELSE incrementProjectCounter(projectCounter)
        uniqueId == IF hasCrypto THEN uuid ELSE TimestampAndCounter(now, counter)
    IN /\ idCalls < MaxProjects
       /\ projectId(uuid) \notin {ids[i].id : i \in DOMAIN ids}
       /\ devCall' = <<[big |-> big, type |-> type, category |-> category,
                        shortInfo |-> shortInfo, longInfo |-> longInfo,
                        skillList |-> skillList]>>
       /\ devResult' = <<r>>
       /\ IF generates
          THEN /\ idCalls' = idCalls + 1
               /\ projectCounter' = counter
               /\ ids' = IF r.html # <<>>
                         THEN Append(ids, [id |-> projectId(uniqueId), at |-> now,
                                           counter |-> counter])
                         ELSE ids
          ELSE UNCHANGED <<idCalls, projectCounter, ids>>
       /\ UNCHANGED <<hasCrypto, now, notifyVars, cardVars, formVars, phoneVars, skillVars,
                      mailVars, escapeVars, langVars, hoverVars, initVars, toggleVars>>

\* The page runs in a browser with or without crypto.randomUUID.
Browser(crypto) ==
    /\ idCalls = 0
    /\ hasCrypto # crypto
    /\ hasCrypto' = crypto
    /\ UNCHANGED <<now, projectCounter, idCalls, ids, notifyVars, cardVars, formVars,
                   phoneVars, renderVars, skillVars, mailVars, escapeVars, langVars,
                   hoverVars, initVars, toggleVars>>

\* The milliseconds Date.now() returns: the clock moves on, or is set back.
Times == {41, 42}

ClockChanges(time) ==
    /\ time # now
    /\ now' = time
    /\ UNCHANGED <<hasCrypto, projectCounter, idCalls, ids, notifyVars, cardVars, formVars,
                   phoneVars, renderVars, skillVars, mailVars, escapeVars, langVars,
                   hoverVars, initVars, toggleVars>>

\* classList.toggle(name, force)
classListToggle(classes, name, force) ==
    IF force THEN classes \cup {name} ELSE classes \ {name}

\* toggleProjectBox comparing dataset.expanded with the number 1.
ToggleComparingNumber(el) ==
    [el EXCEPT !.expanded = "1",
               !.classes = classListToggle(classListToggle(el.classes, "project-large", TRUE),
                                           "project-small", FALSE),
               !.clicks = el.clicks + 1]

\* toggleProjectBox flipping data-expanded and leaving the classes.
ToggleOnlyExpanded(el) ==
    [el EXCEPT !.expanded = IF el.expanded = "1" THEN "0" ELSE "1",
               !.clicks = el.clicks + 1]

\* toggleProjectBox(projectElement), for an element that is not null.
toggleProjectBox(el) ==
    LET isExpanded == el.expanded = "1"
    IN [el EXCEPT !.expanded = IF isExpanded THEN "0" ELSE "1",
                  !.classes = classListToggle(
                                  classListToggle(el.classes, "project-large", ~isExpanded),
                                  "project-small", isExpanded),
                  !.clicks = el.clicks + 1]

\* A page script calls developProject and inserts the markup it returns.
DevelopProject(big, type, category, shortInfo, longInfo, skillList) ==
    /\ Len(cards) < MaxCards
    /\ markup' = developProject(big, type, category, shortInfo, longInfo, skillList).html
    /\ cards' = cards \o markup'
    /\ UNCHANGED <<toggles, notifyVars, formVars,
                   phoneVars, renderVars, skillVars, mailVars, escapeVars, idVars,
                   langVars, hoverVars, initVars, toggleVars>>

\* [0-9a-fA-F], among the characters of the model.
HexDigits == Digits \cup {"A", "B", "C", "D", "E", "a", "b", "c"}

\* The characters CSS.escape leaves as they are: letters, digits, - and _, and
\* whatever is not ASCII.
CssNameChars == Letters \cup Digits \cup {"-", "_", LoneSurrogate}

\* CSS.escape of the character at position i of the value.
CssEscapeChar(value, i) ==
    LET c == value[i]
    IN IF c \in Digits /\ (i = 1 \/ (i = 2 /\ value[1] = "-"))
       THEN <<"\\", "3", c, " ">>
       ELSE IF i = 1 /\ c = "-" /\ Len(value) = 1
       THEN <<"\\", c>>
       ELSE IF c \in CssNameChars
       THEN <<c>>
       ELSE <<"\\", c>>

RECURSIVE CssEscapeFrom(_, _)
CssEscapeFrom(value, i) ==
    IF i > Len(value) THEN <<>> ELSE CssEscapeChar(value, i) \o CssEscapeFrom(value, i + 1)

\* The characters the fallback's pattern escapes (but for the grave accent,
\* which no text of the model holds).
FallbackSpecials ==
    {"!", "\"", "#", "$", "%", "&", "'", "(", ")", "*", "+", ",", ".", "/", ":", ";", "<",
     "=", ">", "?", "@", "[", "\\", "]", "^", "{", "|", "}", "~"}

RECURSIVE FallbackEscape(_)
FallbackEscape(value) ==
    IF value = <<>> THEN <<>>
    ELSE (IF Head(value) \in FallbackSpecials THEN <<"\\", Head(value)>> ELSE <<Head(value)>>)
            \o FallbackEscape(Tail(value))

\* safeCssEscape(value), where CSS.escape exists and where it does not.
safeCssEscape(value, hasCssEscape) ==
    LET stringValue == IF value \in {Null, Undefined} THEN <<>> ELSE value
    IN IF hasCssEscape THEN CssEscapeFrom(stringValue, 1) ELSE FallbackEscape(stringValue)

\* The number of hex digits s begins with, up to n.
RECURSIVE HexRun(_, _)
HexRun(s, n) ==
    IF n = 0 \/ s = <<>> \/ Head(s) \notin HexDigits THEN 0 ELSE 1 + HexRun(Tail(s), n - 1)

\* The character of a code point written in hex: a digit for 30-39, some other
\* character of no interest otherwise.
CodePointChar(hex) ==
    IF Len(hex) = 2 /\ hex[1] = "3" /\ hex[2] \in Digits THEN hex[2] ELSE "#other"

\* The value of a CSS string, as the selector parser reads what stands between
\* the quotes of [data-skill="..."]: a backslash escapes the next character or
\* introduces up to six hex digits and one white space; a quote ends the string.
RECURSIVE CssStringValue(_)
CssStringValue(s) ==
    IF s = <<>> \/ Head(s) = "\"" THEN <<>>
    ELSE IF Head(s) # "\\" THEN <<Head(s)>> \o CssStringValue(Tail(s))
    ELSE LET rest == Tail(s)
             n == HexRun(rest, 6)
             after == SubSeq(rest, n + 1, Len(rest))
         IN IF rest = <<>> THEN <<>>
            ELSE IF n = 0 THEN <<Head(rest)>> \o CssStringValue(Tail(rest))
            ELSE <<CodePointChar(SubSeq(rest, 1, n))>>
                    \o CssStringValue(IF after # <<>> /\ Head(after) \in WhiteSpace
                                      THEN Tail(after) ELSE after)

\* The value the HTML parser gives the attribute written as data-skill="...":
\* what stands before the next double quote.
RECURSIVE HtmlAttributeValue(_)
HtmlAttributeValue(written) ==
    IF written = <<>> \/ Head(written) = "\"" THEN <<>>
    ELSE <<Head(written)>> \o HtmlAttributeValue(Tail(written))

\* The skill elements a card's markup puts into the document; skill records
\* the skill each was rendered for.
RECURSIVE SkillElementsOf(_)
SkillElementsOf(tags) ==
    IF tags = <<>> THEN <<>>
    ELSE <<[dataSkill |-> HtmlAttributeValue(Head(tags).key),
            skill |-> Head(tags).skill,
            highlighted |-> FALSE]>> \o SkillElementsOf(Tail(tags))

\* document.querySelectorAll of the selector [data-skill="<escapedKey>"]: the
\* positions of the elements it returns.
querySelectorAll(elements, escapedKey) ==
    LET value == CssStringValue(escapedKey)
    IN {i \in DOMAIN elements : elements[i].dataSkill = value}

\* The selector value built from the skill itself instead of its key.
EscapedSkill(skill, hasCssEscape) == safeCssEscape(skill, hasCssEscape)

\* escapedKey = safeCssEscape(normalizeSkillKey(skill))
escapedKey(skill, hasCssEscape) == safeCssEscape(normalizeSkillKey(skill), hasCssEscape)

\* The skills skillList.forEach gets through: all of them, or those before the
\* first one on which normalizeSkillKey throws.
RECURSIVE Processed(_)
Processed(skillList) ==
    IF skillList = <<>> \/ normalizeSkillKey(Head(skillList)) = URIError THEN <<>>
    ELSE <<Head(skillList)>> \o Processed(Tail(skillList))

\* The same with classList.toggle in place of add and remove.
HighlightEachToggling(skillList, elements, isHovering, hasCssEscape) ==
    LET done == Processed(skillList)
        matched == [n \in DOMAIN done |->
                       querySelectorAll(elements, escapedKey(done[n], hasCssEscape))]
    IN [elements |-> [i \in DOMAIN elements |->
                        IF \E n \in DOMAIN matched : i \in matched[n]
                        THEN [elements[i] EXCEPT !.highlighted = ~elements[i].highlighted]
                        ELSE elements[i]],
        matched |-> matched,
        threw |-> IF Len(done) < Len(skillList) THEN "URIError" ELSE ""]

\* skillList.forEach(skill => ...): the elements afterwards, the positions
\* matched for each skill that was processed, and the exception that ended it.
HighlightEach(skillList, elements, isHovering, hasCssEscape) ==
    LET done == Processed(skillList)
        matched == [n \in DOMAIN done |->
                       querySelectorAll(elements, escapedKey(done[n], hasCssEscape))]
    IN [elements |-> [i \in DOMAIN elements |->
                        IF \E n \in DOMAIN matched : i \in matched[n]
                        THEN [elements[i] EXCEPT !.highlighted = isHovering]
                        ELSE elements[i]],
        matched |-> matched,
        threw |-> IF Len(done) < Len(skillList) THEN "URIError" ELSE ""]

\* No skill list: null.
NullList == <<Null>>

\* highlightSkill(projectElement, skillList, isHovering)
highlightSkill(hasElement, skillList, elements, isHovering, hasCssEscape) ==
    IF ~hasElement \/ skillList = NullList \/ Len(skillList) = 0
    THEN [elements |-> elements, matched |-> <<>>, threw |-> ""]
    ELSE HighlightEach(skillList, elements, isHovering, hasCssEscape)

\* The skills of the projects and the lists the callers pass.
SkillNames ==
    {<<"C", "+", "+">>, <<"C", "%", "2", "B", "%", "2", "B">>, <<"3", ".", "D">>, <<"-", "1">>}

HoverLists ==
    {<<>>, NullList} \cup {<<skill>> : skill \in SkillNames}
           \cup {<<<<"C", "+", "+">>, <<"3", ".", "D">>>>, <<<<"-", "1">>, <<LoneSurrogate>>>>}

\* A page script inserts the markup developProject returns for a project with
\* these skills.
InsertProject(skillList) ==
    LET r == developProject(PROJECT_STATE_LARGE, PROJECT_TYPE_PERSONAL, <<"A">>, <<"s">>,
                            <<"l">>, skillList)
    IN /\ Len(skillElements) + Len(skillList) <= MaxSkillElements
       /\ r.html # <<>>
       /\ skillElements' = skillElements \o SkillElementsOf(r.html[1].skills)
       /\ UNCHANGED <<hover, notifyVars, cardVars, formVars, phoneVars, renderVars,
                      mailVars, escapeVars, idVars, langVars, hoverVars, initVars,
                      toggleVars>>

\* The mouse enters or leaves a project box, or highlightSkill is called with
\* no element, in a browser with or without CSS.escape.
HighlightSkill(hasElement, skillList, isHovering, hasCssEscape) ==
    LET r == highlightSkill(hasElement, skillList, skillElements, isHovering, hasCssEscape)
    IN /\ skillElements' = r.elements
       /\ hover' = <<[hasElement |-> hasElement, skillList |-> skillList,
                      isHovering |-> isHovering, hasCssEscape |-> hasCssEscape,
                      elements |-> Len(skillElements),
                      matched |-> r.matched, threw |-> r.threw]>>
       /\ UNCHANGED <<notifyVars, cardVars, formVars, phoneVars, renderVars, mailVars,
                      escapeVars, idVars, langVars, hoverVars, initVars, toggleVars>>

\* The skill lists of the boxes the hover listeners are bound to.
BoxLists == {<<<<"J", "S">>>>, <<<<"C", "+", "+">>, <<"J", "S">>>>}

\* A page script inserts the markup developProject returns as a project box.
AddProjectBox(skillList) ==
    LET r == developProject(PROJECT_STATE_LARGE, PROJECT_TYPE_PERSONAL, <<"A">>, <<"s">>,
                            <<"l">>, skillList)
    IN /\ Len(boxes) < MaxBoxes
       /\ r.html # <<>>
       /\ boxes' = Append(boxes, [skillList |-> skillList])
       /\ skillElements' = skillElements \o SkillElementsOf(r.html[1].skills)
       /\ onceElements' = onceElements \o SkillElementsOf(r.html[1].skills)
       /\ UNCHANGED <<hover, hovered, bindings, lastAttach, notifyVars, cardVars, formVars,
                      phoneVars, renderVars, mailVars, escapeVars, idVars, langVars,
                      initVars, toggleVars>>

\* attachHighlightListeners(projectId, skillList): what it does ("ignored",
\* "warned" or "registered"). A project id is the position of the box in the
\* document, 0 stands for an id that is empty or null, and a position past the
\* last box for an id no element has.
attachHighlightListeners(id, skillList) ==
    IF id = 0 \/ skillList = NullList \/ Len(skillList) = 0 THEN "ignored"
    ELSE IF id \notin DOMAIN boxes THEN "warned"
    ELSE "registered"

AttachHighlightListeners(id, skillList) ==
    LET outcome == attachHighlightListeners(id, skillList)
    IN /\ lastAttach' = <<[projectId |-> id, outcome |-> outcome]>>
       /\ IF outcome = "registered"
          THEN /\ Len(bindings) < MaxBindings
               /\ bindings' = Append(bindings, [box |-> id, skillList |-> skillList,
                                                active |-> FALSE, elements |-> 0])
          ELSE UNCHANGED bindings
       /\ UNCHANGED <<boxes, hovered, onceElements, notifyVars, cardVars, formVars,
                      phoneVars, renderVars, skillVars, mailVars, escapeVars, idVars,
                      langVars, initVars, toggleVars>>

\* The listeners of a box run in the order of their registration, each calling
\* highlightSkill(projectElement, skillList, isHovering): the skill elements
\* afterwards.
RECURSIVE RunListenersOf(_, _, _, _, _)
RunListenersOf(box, registered, elements, isHovering, hasCssEscape) ==
    IF registered = <<>> THEN elements
    ELSE RunListenersOf(box, Tail(registered),
                        IF Head(registered).box = box
                        THEN highlightSkill(TRUE, Head(registered).skillList, elements,
                                            isHovering, hasCssEscape).elements
                        ELSE elements,
                        isHovering, hasCssEscape)

\* The listener pairs without those that repeat the box and the skill list of
\* an earlier one.
OnceEach(registered) ==
    LET first == {i \in DOMAIN registered :
                    \A j \in 1..(i - 1) :
                        \/ registered[j].box # registered[i].box
                        \/ registered[j].skillList # registered[i].skillList}
        RECURSIVE From(_)
        From(i) == IF i > Len(registered) THEN <<>>
                   ELSE (IF i \in first THEN <<registered[i]>> ELSE <<>>) \o From(i + 1)
    IN From(1)

\* The pointer enters a box (isHovering) or leaves it: the browser dispatches
\* mouseenter or mouseleave to the box.
MouseEvent(box, isHovering, hasCssEscape) ==
    /\ box \in DOMAIN boxes
    /\ isHovering <=> box \notin hovered
    /\ hovered' = IF isHovering THEN hovered \cup {box} ELSE hovered \ {box}
    /\ skillElements' = RunListenersOf(box, bindings, skillElements, isHovering,
                                       hasCssEscape)
    /\ onceElements' = RunListenersOf(box, OnceEach(bindings), onceElements, isHovering,
                                      hasCssEscape)
    /\ bindings' = [i \in DOMAIN bindings |->
                        IF bindings[i].box = box
                        THEN [bindings[i] EXCEPT !.active = isHovering,
                                                 !.elements = Len(skillElements)]
                        ELSE bindings[i]]
    /\ UNCHANGED <<hover, boxes, lastAttach, notifyVars, cardVars, formVars, phoneVars,
                   renderVars, mailVars, escapeVars, idVars, langVars, initVars,
                   toggleVars>>

\* A caller calls developProject. The function keeps no state, so a behaviour
\* holds one call.
RenderProject(big, type, category, shortInfo, longInfo, skillList) ==
    /\ devCall = <<>>
    /\ devCall' = <<[big |-> big, type |-> type, category |-> category,
                     shortInfo |-> shortInfo, longInfo |-> longInfo,
                     skillList |-> skillList]>>
    /\ devResult' = <<developProject(big, type, category, shortInfo, longInfo, skillList)>>
    /\ UNCHANGED <<notifyVars, cardVars, formVars, phoneVars, skillVars, mailVars,
                   escapeVars, idVars, langVars, hoverVars, initVars, toggleVars>>

\* toggleProjectBox(projectElement) on a card of the document.
ToggleProjectBox(i) ==
    /\ toggles < MaxToggles
    /\ i \in DOMAIN cards
    /\ toggles' = toggles + 1
    /\ cards' = [cards EXCEPT ![i] = toggleProjectBox(cards[i])]
    /\ UNCHANGED <<markup, notifyVars, formVars,
                   phoneVars, renderVars, skillVars, mailVars, escapeVars, idVars,
                   langVars, hoverVars, initVars, toggleVars>>

\* toggleProjectBox(projectElement) without its first line: reading dataset of
\* null throws.
ToggleWithoutNullCheck(target, elements) ==
    IF target = 0 THEN [cards |-> elements, threw |-> TRUE]
    ELSE [cards |-> [elements EXCEPT ![target] = toggleProjectBox(elements[target])],
          threw |-> FALSE]

\* toggleProjectBox(projectElement), projectElement being the card at the
\* position target, or null (0): the cards afterwards and whether it threw.
toggleProjectBoxOrNull(target, elements) ==
    IF target = 0 THEN [cards |-> elements, threw |-> FALSE]
    ELSE [cards |-> [elements EXCEPT ![target] = toggleProjectBox(elements[target])],
          threw |-> FALSE]

\* A page script calls toggleProjectBox with a card of the document or null.
ToggleCall(target) ==
    LET r == toggleProjectBoxOrNull(target, cards)
    IN /\ toggles < MaxToggles
       /\ target \in 0..Len(cards)
       /\ toggles' = toggles + 1
       /\ cards' = r.cards
       /\ lastToggle' = <<[target |-> target, threw |-> r.threw]>>
       /\ UNCHANGED <<markup, notifyVars, formVars, phoneVars, renderVars, skillVars,
                      mailVars, escapeVars, idVars, langVars, hoverVars, initVars>>

\* toggleProjectBox(null): if (!projectElement) return.
ToggleNull ==
    /\ toggles < MaxToggles
    /\ toggles' = toggles + 1
    /\ UNCHANGED <<cards, markup, notifyVars, formVars,
                   phoneVars, renderVars, skillVars, mailVars, escapeVars, idVars,
                   langVars, hoverVars, initVars, toggleVars>>

(***************************************************************************)
(* main.js                                                                 *)
(***************************************************************************)
\* The module is evaluated: init is deferred to DOMContentLoaded when
\* document.readyState is 'loading', and called at once otherwise.
MainModuleRuns(readyState) ==
    /\ ~mainLoaded
    /\ domLoaded => readyState # "loading"
    /\ mainLoaded' = TRUE
    /\ IF readyState = "loading"
       THEN /\ initPending' = TRUE
            /\ UNCHANGED <<isInitialized, clickHandlers, initWarned>>
       ELSE LET r == init(isInitialized, clickHandlers)
            IN /\ isInitialized' = r.isInitialized
               /\ clickHandlers' = r.clickHandlers
               /\ initWarned' = r.warned
               /\ UNCHANGED initPending
    /\ UNCHANGED <<clickCount, lastClick, notifyVars, cardVars, formVars, phoneVars,
                   renderVars, skillVars, mailVars, escapeVars, idVars, langVars,
                   hoverVars, toggleVars>>

\* A page script calls the exported init().
InitCalled ==
    /\ mainLoaded
    /\ LET r == init(isInitialized, clickHandlers)
       IN /\ isInitialized' = r.isInitialized
          /\ clickHandlers' = r.clickHandlers
          /\ initWarned' = r.warned
    /\ UNCHANGED <<mainLoaded, initPending, clickCount, lastClick, notifyVars, cardVars,
                   formVars, phoneVars, renderVars, skillVars, mailVars, escapeVars, idVars,
                   langVars, hoverVars, toggleVars>>

\* event.target.closest('.project-box[data-toggle="project"]'): the position of
\* the card the target is in, 0 when there is none.
Closest(target) ==
    IF /\ target \in DOMAIN cards
       /\ "project-box" \in cards[target].classes
       /\ cards[target].toggle = "project"
    THEN target ELSE 0

\* toggleProjectBox(el), by each of n click listeners.
RECURSIVE ToggledBy(_, _)
ToggledBy(el, n) == IF n = 0 THEN el ELSE ToggledBy(toggleProjectBox(el), n - 1)

\* A click in card target, or outside every card (0): the document's click
\* listeners run.
Click(target) ==
    LET projectElement == Closest(target)
    IN /\ clickCount < MaxClicks
       /\ clickCount' = clickCount + 1
       /\ lastClick' = <<target>>
       /\ IF projectElement # 0
          THEN /\ cards' = [cards EXCEPT
                               ![projectElement] = ToggledBy(cards[projectElement],
                                                             clickHandlers)]
               /\ toggles' = toggles + clickHandlers
          ELSE UNCHANGED <<cards, toggles>>
       /\ UNCHANGED <<markup, mainLoaded, initPending, isInitialized, clickHandlers,
                      initWarned, notifyVars, formVars, phoneVars, renderVars, skillVars,
                      mailVars, escapeVars, idVars, langVars, hoverVars, toggleVars>>

(***************************************************************************)
(* constants.js, language.js                                               *)
(***************************************************************************)
LANGUAGE_ENGLISH == 1

LANGUAGE_FRENCH == 0

\* The scheme and host of the site.
Origin == <<"h", ":", "/", "/", "x">>

\* The position of the first c in s, 0 when there is none.
RECURSIVE IndexFrom(_, _, _)
IndexFrom(s, c, i) ==
    IF i > Len(s) THEN 0 ELSE IF s[i] = c THEN i ELSE IndexFrom(s, c, i + 1)

\* new URL(href): the path, the query and the fragment of an href of the site;
\* the query and the fragment are null when the href has no ? or no #.
parseURL(href) ==
    LET rest == SubSeq(href, Len(Origin) + 1, Len(href))
        hashAt == IndexFrom(rest, "#", 1)
        beforeHash == IF hashAt = 0 THEN rest ELSE SubSeq(rest, 1, hashAt - 1)
        queryAt == IndexFrom(beforeHash, "?", 1)
    IN [pathname |-> IF queryAt = 0 THEN beforeHash ELSE SubSeq(beforeHash, 1, queryAt - 1),
        query |-> IF queryAt = 0 THEN Null
                  ELSE SubSeq(beforeHash, queryAt + 1, Len(beforeHash)),
        fragment |-> IF hashAt = 0 THEN Null ELSE SubSeq(rest, hashAt + 1, Len(rest))]

\* url.pathname = value: a ? or a # of the value is percent-encoded.
RECURSIVE EncodePath(_)
EncodePath(value) ==
    IF value = <<>> THEN <<>>
    ELSE (CASE Head(value) = "?" -> <<"%", "3", "F">>
            [] Head(value) = "#" -> <<"%", "2", "3">>
            [] OTHER -> <<Head(value)>>) \o EncodePath(Tail(value))

setPathname(url, value) == [url EXCEPT !.pathname = EncodePath(value)]

\* The href made of the origin and the path alone.
PathOnly(url) == Origin \o url.pathname

\* url.toString()
toString(url) ==
    Origin \o url.pathname
           \o (IF url.query = Null THEN <<>> ELSE <<"?">> \o url.query)
           \o (IF url.fragment = Null THEN <<>> ELSE <<"#">> \o url.fragment)

\* The letter in lower case, for the letters of the patterns' i flag.
ToLower(c) ==
    CASE c = "H" -> "h"
      [] c = "T" -> "t"
      [] c = "M" -> "m"
      [] c = "L" -> "l"
      [] c = "F" -> "f"
      [] c = "R" -> "r"
      [] OTHER -> c

\* /<suffix>$/i.test(s), for a suffix written in lower case.
TestSuffixIgnoringCase(s, suffix) ==
    /\ Len(s) >= Len(suffix)
    /\ \A i \in 1..Len(suffix) : ToLower(s[Len(s) - Len(suffix) + i]) = suffix[i]

DotHtml == <<".", "h", "t", "m", "l">>

FrDotHtml == <<"-", "f", "r">> \o DotHtml

\* Non-html routes become a concrete page: <path>/index.html.
normalizedPath(currentPath) ==
    IF TestSuffixIgnoringCase(currentPath, DotHtml) THEN currentPath
    ELSE (IF currentPath # <<>> /\ currentPath[Len(currentPath)] = "/"
          THEN currentPath ELSE currentPath \o <<"/">>)
            \o <<"i", "n", "d", "e", "x">> \o DotHtml

\* normalizedPath.replace(/-fr(\.html)$/i, '$1')
RemoveFr(path) ==
    IF TestSuffixIgnoringCase(path, FrDotHtml)
    THEN SubSeq(path, 1, Len(path) - Len(FrDotHtml))
            \o SubSeq(path, Len(path) - Len(DotHtml) + 1, Len(path))
    ELSE path

\* normalizedPath.replace(/(\.html)$/i, '-fr$1')
InsertFr(path) ==
    IF TestSuffixIgnoringCase(path, DotHtml)
    THEN SubSeq(path, 1, Len(path) - Len(DotHtml)) \o <<"-", "f", "r">>
            \o SubSeq(path, Len(path) - Len(DotHtml) + 1, Len(path))
    ELSE path

\* The French path without the test for a path that is French already.
NewPathAlwaysInserting(lang, path) ==
    IF lang = LANGUAGE_ENGLISH THEN RemoveFr(path) ELSE InsertFr(path)

\* newPath, from lang and the normalized path.
newPath(lang, path) ==
    IF lang = LANGUAGE_ENGLISH THEN RemoveFr(path)
    ELSE IF ~TestSuffixIgnoringCase(path, FrDotHtml) THEN InsertFr(path)
    ELSE path

\* switchLanguage(lang) at the given href: the message passed to console.error,
\* whether it assigns window.location.href, and the href afterwards.
switchLanguage(lang, href) ==
    IF lang # LANGUAGE_ENGLISH /\ lang # LANGUAGE_FRENCH
    THEN [error |-> "Invalid language parameter. Use LANGUAGE.ENGLISH or LANGUAGE.FRENCH",
          navigated |-> FALSE, href |-> href]
    ELSE LET url == parseURL(href)
             currentPath == url.pathname
             target == newPath(lang, normalizedPath(currentPath))
         IN IF target # currentPath
            THEN [error |-> "", navigated |-> TRUE,
                  href |-> toString(setPathname(url, target))]
            ELSE [error |-> "", navigated |-> FALSE, href |-> href]

\* The pages, queries and fragments of the hrefs a visitor opens.
Pathnames ==
    {<<"/">>, <<"/", "d">>, <<"/", "d", "/">>,
     <<"/", "p">> \o DotHtml, <<"/", "p">> \o FrDotHtml,
     <<"/", "p", ".", "H", "T", "M", "L">>, <<"/", "p", "-", "F", "R">> \o DotHtml,
     <<"/", "p", "-", "f", "r", ".", "H", "t", "m", "l">>,
     <<"/", "p">> \o <<"-", "f", "r">> \o FrDotHtml,
     <<"/">> \o DotHtml, <<"/", "p", ".", "h", "t", "m">>,
     <<"/", "d", "-", "f", "r", "/", "p">> \o DotHtml,
     <<"/", "p">> \o DotHtml \o <<"/">>}

Queries == {Null, <<>>, <<"q", "=", "1">>}

Fragments == {Null, <<>>, <<"a">>}

Langs == {LANGUAGE_ENGLISH, LANGUAGE_FRENCH, 2}

\* The href of a page of the site, with or without a query and a fragment.
Href(pathname, query, fragment) ==
    Origin \o pathname
           \o (IF query = Null THEN <<>> ELSE <<"?">> \o query)
           \o (IF fragment = Null THEN <<>> ELSE <<"#">> \o fragment)

\* The visitor opens a page of the site.
Visit(pathname, query, fragment) ==
    /\ langLog = <<>>
    /\ location' = Href(pathname, query, fragment)
    /\ location' # location
    /\ UNCHANGED <<langLog, notifyVars, cardVars, formVars, phoneVars, renderVars,
                   skillVars, mailVars, escapeVars, idVars, hoverVars, initVars,
                   toggleVars>>

\* A language control calls switchLanguage(lang); the browser follows the href
\* it assigns.
SwitchLanguage(lang) ==
    LET r == switchLanguage(lang, location)
    IN /\ Len(langLog) < MaxSwitches
       /\ location' = r.href
       /\ langLog' = Append(langLog, [lang |-> lang, from |-> location, to |-> r.href,
                                      navigated |-> r.navigated, error |-> r.error])
       /\ UNCHANGED <<notifyVars, cardVars, formVars, phoneVars, renderVars, skillVars,
                      mailVars, escapeVars, idVars, hoverVars, initVars, toggleVars>>

(***************************************************************************)
(* validation.js                                                           *)
(***************************************************************************)
RECURSIVE TrimStart(_)
TrimStart(s) ==
    IF s # <<>> /\ Head(s) \in WhiteSpace THEN TrimStart(Tail(s)) ELSE s

RECURSIVE TrimEnd(_)
TrimEnd(s) ==
    IF s # <<>> /\ s[Len(s)] \in WhiteSpace THEN TrimEnd(SubSeq(s, 1, Len(s) - 1)) ELSE s

\* s.trim()
trim(s) == TrimEnd(TrimStart(s))

\* !x, for a string, null or undefined
Falsy(x) == x \in {Null, Undefined, <<>>}

\* !x || x.trim() === ''
Blank(x) == Falsy(x) \/ trim(x) = <<>>

\* [^\s@]+ matches s[a..b]
NoSpaceNoAt(s, a, b) ==
    /\ a <= b
    /\ \A i \in a..b : s[i] \notin WhiteSpace /\ s[i] # "@"

\* /^[^\s@]+@[^\s@]+\.[^\s@]+$/.test(s)
EmailRegex(s) ==
    \E i, j \in 1..Len(s) :
        /\ s[i] = "@"
        /\ s[j] = "."
        /\ NoSpaceNoAt(s, 1, i - 1)
        /\ NoSpaceNoAt(s, i + 1, j - 1)
        /\ NoSpaceNoAt(s, j + 1, Len(s))

\* isValidEmail(email)
isValidEmail(email) ==
    IF Falsy(email) \/ email \in NonStrings THEN FALSE ELSE EmailRegex(trim(email))

\* phone.replace(/[\s\-\.()]/g, '')
RECURSIVE Cleaned(_)
Cleaned(s) ==
    IF s = <<>> THEN <<>>
    ELSE IF Head(s) \in WhiteSpace \cup {"-", ".", "(", ")"} THEN Cleaned(Tail(s))
    ELSE <<Head(s)>> \o Cleaned(Tail(s))

\* [0-9]{..} matches s[a..Len(s)]
DigitsFrom(s, a) == \A i \in a..Len(s) : s[i] \in Digits

\* The pattern with [0-9] for the first digit of the country code.
PhoneRegexAnyCode(s) ==
    \/ /\ Len(s) = 12
       /\ s[1] = "+" /\ s[2] = "3" /\ s[3] = "3"
       /\ s[4] \in Digits \ {"0"}
       /\ DigitsFrom(s, 5)
    \/ /\ Len(s) = 10
       /\ s[1] = "0"
       /\ s[2] \in Digits \ {"0"}
       /\ DigitsFrom(s, 3)
    \/ /\ Len(s) \in 9..18
       /\ s[1] = "+"
       /\ DigitsFrom(s, 2)

\* /^(\+33[1-9][0-9]{8}|0[1-9][0-9]{8}|\+[1-9][0-9]{1,2}[0-9]{6,14})$/.test(s)
PhoneRegex(s) ==
    \/ /\ Len(s) = 12
       /\ s[1] = "+" /\ s[2] = "3" /\ s[3] = "3"
       /\ s[4] \in Digits \ {"0"}
       /\ DigitsFrom(s, 5)
    \/ /\ Len(s) = 10
       /\ s[1] = "0"
       /\ s[2] \in Digits \ {"0"}
       /\ DigitsFrom(s, 3)
    \/ /\ Len(s) \in 9..18
       /\ s[1] = "+"
       /\ s[2] \in Digits \ {"0"}
       /\ DigitsFrom(s, 3)

\* isValidPhoneNumber(phone)
isValidPhoneNumber(phone) ==
    IF Falsy(phone) \/ phone \in NonStrings THEN FALSE ELSE PhoneRegex(Cleaned(phone))

\* The template literal's fixed parts.
FromText ==
    <<" ", "f", "r", "o", "m", " ">>

InterestedText ==
    <<" ", "w", "a", "s", " ", "i", "n", "t", "e", "r", "e", "s", "t", "e", "d", " ",
      "i", "n", " ", "y", "o", "u", "r", " ", "p", "o", "r", "t", "f", "o", "l", "i",
      "o">>

\* showError(message); return false
Reject(message) == [result |-> <<>>, errors |-> <<message>>]

\* The returned object with an untrimmed email.
SubmissionRawEmail(name, email, phoneNumber, company, comment) ==
    [result |-> <<[success |-> TRUE,
                   name |-> trim(name),
                   email |-> IF Falsy(email) THEN <<>> ELSE email,
                   phoneNumber |-> IF Falsy(phoneNumber) THEN <<>> ELSE trim(phoneNumber),
                   company |-> trim(company),
                   finalComment |-> IF ~Blank(comment)
                                    THEN comment
                                    ELSE name \o FromText \o company \o InterestedText]>>,
     errors |-> <<>>]

\* "Set default comment if empty" and "Return validated data".
Submission(name, email, phoneNumber, company, comment) ==
    [result |-> <<[success |-> TRUE,
                   name |-> trim(name),
                   email |-> IF Falsy(email) THEN <<>> ELSE trim(email),
                   phoneNumber |-> IF Falsy(phoneNumber) THEN <<>> ELSE trim(phoneNumber),
                   company |-> trim(company),
                   finalComment |-> IF ~Blank(comment)
                                    THEN comment
                                    ELSE name \o FromText \o company \o InterestedText]>>,
     errors |-> <<>>]

\* The contact checks with the phone number validated only when no email is given.
ContactChecksElseIf(name, email, phoneNumber, company, comment) ==
    IF Blank(email) /\ Blank(phoneNumber)
    THEN Reject("Please provide either an email or phone number")
    ELSE IF ~Blank(email)
    THEN IF ~isValidEmail(email)
         THEN Reject("Please provide a valid email address")
         ELSE Submission(name, email, phoneNumber, company, comment)
    ELSE IF ~isValidPhoneNumber(phoneNumber)
    THEN Reject("Please provide a valid phone number (French +33 or international format)")
    ELSE Submission(name, email, phoneNumber, company, comment)

\* validateContactForm from "Check if either email or phone is provided" on.
ContactChecks(name, email, phoneNumber, company, comment) ==
    IF Blank(email) /\ Blank(phoneNumber)
    THEN Reject("Please provide either an email or phone number")
    ELSE IF ~Blank(email) /\ ~isValidEmail(email)
    THEN Reject("Please provide a valid email address")
    ELSE IF ~Blank(phoneNumber) /\ ~isValidPhoneNumber(phoneNumber)
    THEN Reject("Please provide a valid phone number (French +33 or international format)")
    ELSE Submission(name, email, phoneNumber, company, comment)

\* validateContactForm checking the company before the name.
ValidateCompanyFirst(name, email, phoneNumber, company, comment) ==
    IF Blank(company) THEN Reject("Company is required")
    ELSE IF Blank(name) THEN Reject("Name is required")
    ELSE ContactChecks(name, email, phoneNumber, company, comment)

\* validateContactForm(name, email, phoneNumber, company, comment): what it
\* returns and the messages it passes to showError.
validateContactForm(name, email, phoneNumber, company, comment) ==
    IF Blank(name) THEN Reject("Name is required")
    ELSE IF Blank(company) THEN Reject("Company is required")
    ELSE ContactChecks(name, email, phoneNumber, company, comment)

\* The values the form's fields are submitted with.
Names == {Null, <<>>, <<" ", "\t">>, <<"J", "o">>, <<" ", "J", "o", "\t">>}

Companies == {Undefined, <<>>, <<" ">>, <<"A", "c">>, <<"A", "c", " ">>}

Emails ==
    {Null, <<>>, <<" ">>,
     <<"a", "@", "b", ".", "c">>,
     <<" ", "a", "@", "b", ".", "c", " ">>,
     <<"a", "b", ".", "c">>,
     <<"a", "@", "b", "c">>,
     <<"a", "@", ".", "c">>,
     <<"a", " ", "@", "b", ".", "c">>,
     <<"a", "@", "b", "@", "c", ".", "d">>}

Phones ==
    {Null, <<>>, <<"\t">>,
     <<"0", "6", "1", "2", "3", "4", "5", "6", "7", "8">>,
     <<" ", "0", "6", " ", "1", "2", ".", "3", "4", "-", "5", "6", "7", "8", " ">>,
     <<"+", "3", "3", "6", "1", "2", "3", "4", "5", "6", "7", "8">>,
     <<"+", "4", "4", "(", "1", "2", ")", "3", "4", "5", "6">>,
     <<"0", "0", "1", "2", "3", "4", "5", "6", "7", "8">>,
     <<"1", "2", "3", "4", "5">>,
     <<"0", "6", "1", "2", "3", "4", "5", "6", "7", "a">>}

Comments == {Null, <<>>, <<" ">>, <<"h", "i">>, <<" ", "h", "i", " ">>}

\* The submit handler calls validateContactForm with the fields' values. The
\* function keeps no state, so a behaviour holds one call.
ValidateContactForm(name, email, phoneNumber, company, comment) ==
    LET r == validateContactForm(name, email, phoneNumber, company, comment)
    IN /\ formCall = <<>>
       /\ formCall' = <<[name |-> name, email |-> email, phoneNumber |-> phoneNumber,
                         company |-> company, comment |-> comment]>>
       /\ formResult' = r.result
       /\ formErrors' = r.errors
       /\ UNCHANGED <<notifyVars, cardVars, phoneVars, renderVars, skillVars, mailVars,
                      escapeVars, idVars, langVars, hoverVars, initVars, toggleVars>>

(***************************************************************************)
(* email.js                                                                *)
(***************************************************************************)
\* One thing a sendEmail call did: a call of showError/showSuccess/showInfo,
\* console.*, emailjs.init, emailjs.send or resetContactForm, with its fixed
\* text and the values it was given. "sendEmail" marks the call itself, with
\* typeof emailjs at that moment and the target; "fulfilled" and "rejected" mark
\* the settling of the promise emailjs.send returned.
Event(call, ev, text, data) == [call |-> call, ev |-> ev, text |-> text, data |-> data]

\* lines.join('\n')
RECURSIVE Join(_)
Join(lines) ==
    IF lines = <<>> THEN <<>>
    ELSE IF Len(lines) = 1 THEN lines[1]
    ELSE lines[1] \o <<"\n">> \o Join(Tail(lines))

EmailLabel == <<"E", "m", "a", "i", "l", ":", " ">>

PhoneLabel == <<"P", "h", "o", "n", "e", ":", " ">>

ContactInformationText ==
    <<"C", "o", "n", "t", "a", "c", "t", " ", "I", "n", "f", "o", "r", "m", "a", "t", "i",
      "o", "n", ":">>

\* contactInfo: a line for each sender detail that is given.
contactInfo(senderEmail, senderPhone) ==
    (IF Falsy(senderEmail) THEN <<>> ELSE <<EmailLabel \o escapeHtml(senderEmail)>>)
    \o (IF Falsy(senderPhone) THEN <<>> ELSE <<PhoneLabel \o escapeHtml(senderPhone)>>)

\* emailContent: the sanitized content, a separator and the contact lines.
emailContent(content, senderEmail, senderPhone) ==
    Join(<<escapeHtml(content), <<>>, <<"-", "-", "-">>, ContactInformationText>>
            \o contactInfo(senderEmail, senderPhone))

\* templateParams: to_email, from_name, message, reply_to
templateParams(target, title, content, senderEmail, senderPhone) ==
    <<target, escapeHtml(title), emailContent(content, senderEmail, senderPhone),
      senderEmail>>

\* The credentials check accepting whatever is not a placeholder.
CredentialsNotPlaceholder ==
    /\ serviceID # "service_id"
    /\ templateID # "template_id"
    /\ publicKey # "public_key"

\* isValidCredentials
isValidCredentials ==
    /\ serviceID # "" /\ templateID # "" /\ publicKey # ""
    /\ serviceID # "service_id"
    /\ templateID # "template_id"
    /\ publicKey # "public_key"

\* The local-development test taking every host for a local one.
AnyHostLocal == TRUE

\* isLocalDev
isLocalDev == hostname = "localhost" \/ hostname = "127.0.0.1"

\* The console.warn lines of the credentials check.
CredentialWarnings(call) ==
    <<Event(call, "console.warn",
            "EmailJS credentials are not configured. Missing or placeholder values detected:",
            <<>>)>>
    \o (IF serviceID = "service_id" \/ serviceID = ""
        THEN <<Event(call, "console.warn", "  - serviceID is missing or placeholder", <<>>)>>
        ELSE <<>>)
    \o (IF templateID = "template_id" \/ templateID = ""
        THEN <<Event(call, "console.warn", "  - templateID is missing or placeholder", <<>>)>>
        ELSE <<>>)
    \o (IF publicKey = "public_key" \/ publicKey = ""
        THEN <<Event(call, "console.warn", "  - publicKey is missing or placeholder", <<>>)>>
        ELSE <<>>)

\* "Fallback: Log to console only on local dev to avoid leaking data"
PreviewLog(call, target, title, content, senderEmail, senderPhone) ==
    IF isLocalDev
    THEN <<Event(call, "console.log", "Email would be sent with the following content:",
                 <<>>),
           Event(call, "console.log", "",
                 <<target, title, emailContent(content, senderEmail, senderPhone)>>)>>
    ELSE <<>>

\* emailjs.init(publicKey) on every call that reaches it.
InitEveryCall(call) == <<Event(call, "emailjs.init", publicKey, <<>>)>>

\* "Initialize EmailJS only once"
InitOnce(call) ==
    IF ~emailJsInitialized THEN <<Event(call, "emailjs.init", publicKey, <<>>)>> ELSE <<>>

\* sendEmail without "Validate target email".
SendEmailUnchecked(call, target, title, content, senderEmail, senderPhone) ==
    <<Event(call, "sendEmail", emailjs, <<target>>)>>
    \o
    IF emailjs = "undefined"
    THEN <<Event(call, "showError",
                 "Email service is not available. Please try again later.", <<>>),
           Event(call, "console.error", "EmailJS is not loaded.", <<>>)>>
    ELSE IF ~isValidCredentials
    THEN CredentialWarnings(call)
         \o PreviewLog(call, target, title, content, senderEmail, senderPhone)
         \o <<Event(call, "showInfo",
                    "Preview only - no email was sent. EmailJS is not configured.", <<>>)>>
    ELSE InitOnce(call)
         \o <<Event(call, "emailjs.send", "",
                    templateParams(target, title, content, senderEmail, senderPhone))>>

\* sendEmail(target, title, content, senderEmail = '', senderPhone = ''): what
\* the call does before it returns, in order.
sendEmail(call, target, title, content, senderEmail, senderPhone) ==
    <<Event(call, "sendEmail", emailjs, <<target>>)>>
    \o
    IF emailjs = "undefined"
    THEN <<Event(call, "showError",
                 "Email service is not available. Please try again later.", <<>>),
           Event(call, "console.error", "EmailJS is not loaded.", <<>>)>>
    ELSE IF Falsy(target) \/ ~isValidEmail(target)
    THEN <<Event(call, "showError", "Invalid recipient email address.", <<>>),
           Event(call, "console.error", "Invalid target email:", <<target>>)>>
    ELSE IF ~isValidCredentials
    THEN CredentialWarnings(call)
         \o PreviewLog(call, target, title, content, senderEmail, senderPhone)
         \o <<Event(call, "showInfo",
                    "Preview only - no email was sent. EmailJS is not configured.", <<>>)>>
    ELSE InitOnce(call)
         \o <<Event(call, "emailjs.send", "",
                    templateParams(target, title, content, senderEmail, senderPhone))>>

\* The events of the kind ev among the events.
EventsOf(events, ev) == SelectSeq(events, LAMBDA x : x.ev = ev)

\* The arguments the callers pass to sendEmail.
Targets == {Null, <<"a", "b", ".", "c">>, <<"a", "@", "b", ".", "c">>}

Titles == {<<"J", "o", " ", "&", " ", "A", "c">>}

Contents == {<<"<", "h", "i", ">">>}

\* The sender's details: an email, a phone number, or both.
Senders ==
    {[email |-> <<"c", "@", "b", ".", "c">>, phone |-> <<>>],
     [email |-> <<>>, phone |-> <<"0", "6">>]}

\* A caller calls sendEmail.
SendEmail(target, title, content, senderEmail, senderPhone) ==
    LET call == mailCalls + 1
        events == sendEmail(call, target, title, content, senderEmail, senderPhone)
    IN /\ mailCalls < MaxSends
       /\ mailCalls' = call
       /\ mailLog' = mailLog \o events
       /\ emailJsInitialized' = (emailJsInitialized \/ EventsOf(events, "emailjs.init") # <<>>)
       /\ outstanding' = IF EventsOf(events, "emailjs.send") # <<>>
                         THEN outstanding \cup {call} ELSE outstanding
       /\ UNCHANGED <<emailjs, hostname, serviceID, templateID, publicKey, contactForm,
                      notifyVars, cardVars, formVars, phoneVars, renderVars, skillVars,
                      escapeVars, idVars, langVars, hoverVars, initVars, toggleVars>>

\* resetContactForm(): form.reset() if the form is in the document.
resetContactForm(form) == IF form = "absent" THEN "absent" ELSE "empty"

\* The catch handler sending once more.
RetriedDelivery(call) ==
    <<Event(call, "showError", "Failed to send email. Please try again later.", <<>>),
      Event(call, "console.error", "Email error:", <<>>),
      Event(call, "emailjs.send", "", <<>>)>>

\* The catch handler logging the error and telling the user nothing.
FailedSilently(call) ==
    <<Event(call, "console.error", "Email error:", <<>>)>>

\* .catch(error => ...)
FailedDelivery(call) ==
    <<Event(call, "showError", "Failed to send email. Please try again later.", <<>>),
      Event(call, "console.error", "Email error:", <<>>)>>

\* The then handler not resetting the form.
DeliveredNoReset(call) ==
    <<Event(call, "showSuccess", "Email sent successfully!", <<>>)>>

\* .then(() => ...)
Delivered(call) ==
    <<Event(call, "showSuccess", "Email sent successfully!", <<>>),
      Event(call, "resetContactForm", "", <<>>)>>

\* The promise of a call's emailjs.send is fulfilled and its then handler runs.
DeliverySucceeds(call) ==
    /\ call \in outstanding
    /\ outstanding' = outstanding \ {call}
    /\ mailLog' = mailLog \o <<Event(call, "fulfilled", "", <<>>)>> \o Delivered(call)
    /\ contactForm' = IF EventsOf(Delivered(call), "resetContactForm") # <<>>
                      THEN resetContactForm(contactForm) ELSE contactForm
    /\ UNCHANGED <<emailjs, hostname, serviceID, templateID, publicKey, emailJsInitialized,
                   mailCalls, notifyVars, cardVars, formVars, phoneVars, renderVars,
                   skillVars, escapeVars, idVars, langVars, hoverVars, initVars,
                   toggleVars>>

\* The promise of a call's emailjs.send is rejected and its catch handler runs.
DeliveryFails(call) ==
    /\ call \in outstanding
    /\ outstanding' = outstanding \ {call}
    /\ mailLog' = mailLog \o <<Event(call, "rejected", "", <<>>)>> \o FailedDelivery(call)
    /\ UNCHANGED <<emailjs, hostname, serviceID, templateID, publicKey, contactForm,
                   emailJsInitialized, mailCalls, notifyVars, cardVars, formVars, phoneVars,
                   renderVars, skillVars, escapeVars, idVars, langVars, hoverVars,
                   initVars, toggleVars>>

\* The values a deployment gives the host and the three credentials.
Hostnames == {"localhost", "127.0.0.1", "example.org"}

ServiceIDs == {"", "service_id", "service_x"}

TemplateIDs == {"", "template_id", "template_x"}

PublicKeys == {"", "public_key", "key_x"}

\* The page is deployed: its host, the credentials written into sendEmail, and
\* whether it holds the contact form.
Deploy(host, service, template, key, form) ==
    /\ mailCalls = 0
    /\ hostname' = host
    /\ serviceID' = service
    /\ templateID' = template
    /\ publicKey' = key
    /\ contactForm' = form
    /\ UNCHANGED <<emailjs, emailJsInitialized, mailCalls, outstanding, mailLog,
                   notifyVars, cardVars, formVars, phoneVars, renderVars, skillVars,
                   escapeVars, idVars, langVars, hoverVars, initVars, toggleVars>>

\* The EmailJS script has loaded: emailjs is defined.
EmailJsLoads ==
    /\ emailjs = "undefined"
    /\ emailjs' = "object"
    /\ UNCHANGED <<hostname, serviceID, templateID, publicKey, contactForm,
                   emailJsInitialized, mailCalls, outstanding, mailLog,
                   notifyVars, cardVars, formVars, phoneVars, renderVars, skillVars,
                   escapeVars, idVars, langVars, hoverVars, initVars, toggleVars>>

\* The visitor types into the form that a delivery has reset.
FillContactForm ==
    /\ contactForm = "empty"
    /\ contactForm' = "filled"
    /\ UNCHANGED <<emailjs, hostname, serviceID, templateID, publicKey,
                   emailJsInitialized, mailCalls, outstanding, mailLog,
                   notifyVars, cardVars, formVars, phoneVars, renderVars, skillVars,
                   escapeVars, idVars, langVars, hoverVars, initVars, toggleVars>>

\* The phone numbers isValidPhoneNumber is called with: a prefix, a first digit,
\* n further digits and maybe a letter, written plainly or with separators.
PhonePrefixes ==
    {<<>>, <<"0">>, <<"0", "0">>, <<"+">>, <<"+", "0">>, <<"+", "3", "3">>, <<"+", "4", "4">>}

RECURSIVE Ones(_)
Ones(n) == IF n = 0 THEN <<>> ELSE <<"1">> \o Ones(n - 1)

\* " (xx)-xxxx.\t": the number with the separators the function removes.
Separated(s) ==
    IF Len(s) < 2 THEN s
    ELSE <<" ", "(">> \o SubSeq(s, 1, 2) \o <<")", "-">> \o SubSeq(s, 3, Len(s))
            \o <<".", "\t">>

PhoneInputs ==
    {Null, Undefined, NotAString, <<>>, <<" ">>}
    \cup {prefix \o first \o Ones(n) \o last :
            prefix \in PhonePrefixes, first \in {<<"0">>, <<"6">>}, n \in 4..16,
            last \in {<<>>, <<"a">>}}
    \cup {Separated(prefix \o first \o Ones(n)) :
            prefix \in PhonePrefixes, first \in {<<"0">>, <<"6">>}, n \in 4..16}

\* A caller calls isValidPhoneNumber(phone). The function keeps no state, so a
\* behaviour holds one call.
IsValidPhoneNumber(phone) ==
    /\ phoneCall = <<>>
    /\ phoneCall' = <<phone>>
    /\ phoneResult' = isValidPhoneNumber(phone)
    /\ UNCHANGED <<notifyVars, cardVars, formVars, renderVars, skillVars, mailVars,
                   escapeVars, idVars, langVars, hoverVars, initVars, toggleVars>>

InitNotify ==
    /\ bodyReady = FALSE
    /\ domLoaded = FALSE
    /\ inDoc = [k \in Kinds |-> FALSE]
    /\ textContent = [k \in Kinds |-> NoText]
    /\ display = [k \in Kinds |-> ""]
    /\ messageTimers = [k \in Kinds |-> NoTimer]
    /\ timers = {}
    /\ nextId = 1
    /\ listeners = <<>>
    /\ calls = 0
    /\ lastCall = [k \in Kinds |-> NoText]
    /\ sinceCall = [k \in Kinds |-> Duration]
    /\ sinceShown = [k \in Kinds |-> Duration]
    /\ lastOp = [op |-> "init", type |-> "-"]

InitCards ==
    /\ cards = <<>>
    /\ toggles = 0
    /\ markup = <<>>

InitForm ==
    /\ formCall = <<>>
    /\ formResult = <<>>
    /\ formErrors = <<>>

InitPhone ==
    /\ phoneCall = <<>>
    /\ phoneResult = FALSE

InitRender ==
    /\ devCall = <<>>
    /\ devResult = <<>>

InitSkills ==
    /\ skillElements = <<>>
    /\ hover = <<>>

InitMail ==
    /\ emailjs = "undefined"
    /\ hostname = "localhost"
    /\ serviceID = "service_id"
    /\ templateID = "template_id"
    /\ publicKey = "public_key"
    /\ contactForm = "absent"
    /\ emailJsInitialized = FALSE
    /\ mailCalls = 0
    /\ outstanding = {}
    /\ mailLog = <<>>

InitEscape ==
    /\ escCall = <<>>
    /\ escResult = <<>>

InitIds ==
    /\ hasCrypto = TRUE
    /\ now = 41
    /\ projectCounter = 0
    /\ idCalls = 0
    /\ ids = <<>>

InitLang ==
    /\ location = Origin \o <<"/", "i", "n", "d", "e", "x">> \o DotHtml
    /\ langLog = <<>>

InitHover ==
    /\ boxes = <<>>
    /\ hovered = {}
    /\ bindings = <<>>
    /\ lastAttach = <<>>
    /\ onceElements = <<>>

InitMain ==
    /\ mainLoaded = FALSE
    /\ initPending = FALSE
    /\ isInitialized = FALSE
    /\ clickHandlers = 0
    /\ initWarned = FALSE
    /\ clickCount = 0
    /\ lastClick = <<>>

InitToggle == lastToggle = <<>>

Init ==
    /\ InitNotify /\ InitCards /\ InitForm /\ InitPhone /\ InitRender /\ InitSkills
    /\ InitMail /\ InitEscape /\ InitIds /\ InitLang /\ InitHover /\ InitMain
    /\ InitToggle

NextNotify ==
    \/ \E m \in Texts : showError(m)
    \/ \E m \in Texts : showSuccess(m)
    \/ \E m \in Texts : showInfo(m)
    \/ BodyParsed
    \/ DOMContentLoaded
    \/ \E t \in timers : Expire(t)
    \/ Tick

SpecNotify == Init /\ [][NextNotify]_vars

NextCards ==
    \/ \E big \in Bigs, type \in Types, category \in Categories, shortInfo \in ShortInfos,
          longInfo \in LongInfos, skillList \in SkillLists :
            DevelopProject(big, type, category, shortInfo, longInfo, skillList)
    \/ \E i \in DOMAIN cards : ToggleProjectBox(i)
    \/ ToggleNull

SpecCards == Init /\ [][NextCards]_vars

NextForm ==
    \E name \in Names, email \in Emails, phoneNumber \in Phones, company \in Companies,
       comment \in Comments :
        ValidateContactForm(name, email, phoneNumber, company, comment)

SpecForm == Init /\ [][NextForm]_vars

NextRender ==
    \E big \in Bigs, type \in Types, category \in Categories, shortInfo \in ShortInfos,
       longInfo \in LongInfos, skillList \in SkillLists :
        RenderProject(big, type, category, shortInfo, longInfo, skillList)

SpecRender == Init /\ [][NextRender]_vars

NextSkills ==
    \/ \E skillList \in HoverLists \ {NullList} : InsertProject(skillList)
    \/ \E skillList \in HoverLists, isHovering \in BOOLEAN, hasCssEscape \in BOOLEAN :
            HighlightSkill(TRUE, skillList, isHovering, hasCssEscape)
    \/ HighlightSkill(FALSE, <<<<"C", "+", "+">>>>, TRUE, TRUE)

SpecSkills == Init /\ [][NextSkills]_vars

NextPhone == \E phone \in PhoneInputs : IsValidPhoneNumber(phone)

SpecPhone == Init /\ [][NextPhone]_vars

NextMail ==
    \/ \E host \in Hostnames, service \in ServiceIDs, template \in TemplateIDs,
          key \in PublicKeys, form \in {"absent", "filled"} :
            Deploy(host, service, template, key, form)
    \/ EmailJsLoads
    \/ \E target \in Targets, title \in Titles, content \in Contents, sender \in Senders :
            SendEmail(target, title, content, sender.email, sender.phone)
    \/ \E call \in outstanding : DeliverySucceeds(call)
    \/ \E call \in outstanding : DeliveryFails(call)
    \/ FillContactForm

SpecMail == Init /\ [][NextMail]_vars

NextEscape == \E text \in EscapeInputs : EscapeHtml(text)

SpecEscape == Init /\ [][NextEscape]_vars

NextIds ==
    \/ \E crypto \in BOOLEAN : Browser(crypto)
    \/ \E time \in Times : ClockChanges(time)
    \/ \E big \in Bigs, skillList \in SkillLists, uuid \in UUIDs :
            CreateProject(big, PROJECT_TYPE_SCHOOL, <<"A">>, <<"s">>, <<"l">>, skillList,
                          uuid)

SpecIds == Init /\ [][NextIds]_vars

NextLang ==
    \/ \E pathname \in Pathnames, query \in Queries, fragment \in Fragments :
            Visit(pathname, query, fragment)
    \/ \E lang \in Langs : SwitchLanguage(lang)

SpecLang == Init /\ [][NextLang]_vars

NextHover ==
    \/ \E skillList \in BoxLists : AddProjectBox(skillList)
    \/ \E box \in DOMAIN boxes : AttachHighlightListeners(box, boxes[box].skillList)
    \/ \E skillList \in {<<>>, NullList, <<<<"J", "S">>>>} :
            AttachHighlightListeners(Len(boxes) + 1, skillList)
    \/ AttachHighlightListeners(0, <<<<"J", "S">>>>)
    \/ \E box \in DOMAIN boxes, isHovering \in BOOLEAN : MouseEvent(box, isHovering, TRUE)

SpecHover == Init /\ [][NextHover]_vars

NextMain ==
    \/ BodyParsed
    \/ DOMContentLoaded
    \/ \E readyState \in {"loading", "interactive", "complete"} : MainModuleRuns(readyState)
    \/ InitCalled
    \/ \E big \in {PROJECT_STATE_LARGE, PROJECT_STATE_SMALL} :
            DevelopProject(big, PROJECT_TYPE_PERSONAL, <<"A">>, <<"s">>, <<"l">>, <<>>)
    \/ \E target \in 0..Len(cards) : Click(target)

SpecMain == Init /\ [][NextMain]_vars

NextToggle ==
    \/ \E big \in Bigs, skillList \in SkillLists :
            DevelopProject(big, PROJECT_TYPE_SCHOOL, <<"A">>, <<"s">>, <<"l">>, skillList)
    \/ \E target \in 0..Len(cards) : ToggleCall(target)

SpecToggle == Init /\ [][NextToggle]_vars

\* The event loop keeps running: time passes and a due timeout runs its callback.
FairSpecNotify ==
    /\ SpecNotify
    /\ WF_vars(Tick)
    /\ \A k \in Kinds : WF_vars(\E t \in timers : t.type = k /\ Expire(t))

(***************************************************************************)
(* Claims about the notification system.                                   *)
(***************************************************************************)
\* The pending timeouts whose callback hides the message of kind k.
PendingOf(k) == {t \in timers : t.type = k}

\* C1: for every kind at most one expiry timer is pending, and after a
\* showMessage call that displayed its message exactly one is: the one the call
\* scheduled, the previously scheduled one being cancelled.
C1_AtMostOneTimer ==
    \A k \in Kinds :
        /\ Cardinality(PendingOf(k)) <= 1
        /\ (lastOp = [op |-> "showMessage", type |-> k] /\ inDoc[k])
              => PendingOf(k) = {[id |-> messageTimers[k], type |-> k,
                                  left |-> Duration - sinceCall[k]]}

\* Two error messages inside the expiry window: the second call found the first
\* call's timer pending and left one scheduled expiry.
C1_Witness ==
    /\ lastOp = [op |-> "showMessage", type |-> "error"]
    /\ display["success"] = "" /\ display["info"] = ""
    /\ messageTimers["error"] = 2
    /\ nextId = 3
    /\ sinceShown["error"] = 1
    /\ Cardinality(PendingOf("error")) = 1

\* C2: last-write-wins per kind: a visible message of kind k shows the text of
\* the most recent showMessage(k, text) call.
C2_LastWriteWins ==
    \A k \in Kinds : display[k] = "block" => textContent[k] = lastCall[k]

\* The step leaves the element, text, visibility, timer handle and pending
\* timeouts of every kind but k as they were.
OthersUnchanged(k) ==
    \A j \in Kinds \ {k} :
        /\ inDoc'[j] = inDoc[j]
        /\ textContent'[j] = textContent[j]
        /\ display'[j] = display[j]
        /\ messageTimers'[j] = messageTimers[j]
        /\ {t \in timers' : t.type = j} = {t \in timers : t.type = j}

\* C3: a showMessage call of kind k and the expiry of kind k's timer leave the
\* element, text, visibility and pending timer of every other kind unchanged.
C3_KindsIndependent ==
    [][/\ \A k \in Kinds, m \in Texts : showMessage(k, m) => OthersUnchanged(k)
       /\ \A t \in timers : Expire(t) => OthersUnchanged(t.type)]_vars

\* The error message's timer has just expired while a success message is shown.
C3_Witness ==
    /\ lastOp = [op |-> "Expire", type |-> "error"]
    /\ display["error"] = "none"
    /\ display["success"] = "block"
    /\ PendingOf("success") # {}

\* C4 as stated: after showMessage(k, text) the message is visible until the
\* duration measured from that call has elapsed, its expiry being due exactly
\* then.
C4_ExpiryFromCall ==
    \A k \in Kinds :
        /\ (lastCall[k] # NoText /\ sinceCall[k] < Duration) => display[k] = "block"
        /\ display[k] = "block"
              => \E t \in PendingOf(k) : t.left = Duration - sinceCall[k]

\* A visible message has exactly one pending expiry, due Duration after its
\* last display.
C4_ExpiryScheduled ==
    \A k \in Kinds :
        display[k] = "block"
            => PendingOf(k) = {[id |-> messageTimers[k], type |-> k,
                                left |-> Duration - sinceShown[k]]}

\* A step hides a visible message only once Duration has elapsed since its last
\* display and since the most recent call of its kind.
C4_NotHiddenEarly ==
    \A k \in Kinds :
        (display[k] = "block" /\ display'[k] # "block")
            => /\ display'[k] = "none"
               /\ sinceShown[k] = Duration
               /\ sinceCall[k] = Duration

\* C4 amended: the duration runs from the display of the message (the call
\* itself when document.body exists, else the DOMContentLoaded listener): a
\* visible message has exactly one expiry, due Duration after its last display;
\* it is never hidden before that, nor before Duration after the most recent
\* call of its kind; and every displayed message is eventually hidden.
C4_AutoClear ==
    /\ []C4_ExpiryScheduled
    /\ [][C4_NotHiddenEarly]_vars
    /\ \A k \in Kinds : (display[k] = "block") ~> (display[k] = "none")

\* A message requested before document.body existed and displayed a second
\* later by the DOMContentLoaded listener has just been hidden.
C4_Witness ==
    \E k \in Kinds :
        /\ lastOp = [op |-> "Expire", type |-> k]
        /\ display[k] = "none"
        /\ messageTimers[k] = 1
        /\ calls = 1
        /\ domLoaded

(***************************************************************************)
(* Claims about the project cards.                                         *)
(***************************************************************************)
\* C5: every card of the document shows exactly one of its two texts: the long
\* one when its data-expanded is '1' (Expanded), the short one otherwise.
C5_TextFollowsState ==
    \A i \in DOMAIN cards :
        cards[i].content =
            escapeHtml(IF cards[i].expanded = "1" THEN cards[i].longInfo
                                                  ELSE cards[i].shortInfo)

\* The data-expanded value and the size classes of an element.
SizeState(el) == <<el.expanded, el.classes>>

\* C6: on every card rendered by developProject, whatever toggles it has gone
\* through, toggleProjectBox changes the state (between '1' and '0') and a second
\* toggleProjectBox restores data-expanded and the class set; so after an even
\* number of toggles the card is as it was rendered.
C6_ToggleInvolution ==
    \A i \in DOMAIN cards :
        LET el == cards[i]
            once == toggleProjectBox(el)
            twice == toggleProjectBox(once)
        IN /\ {el.expanded, once.expanded} = {"0", "1"}
           /\ SizeState(once) # SizeState(el)
           /\ SizeState(twice) = SizeState(el)
           /\ (el.clicks % 2 = 0) => SizeState(el) = el.rendered
           /\ (el.clicks % 2 = 1) => SizeState(once) = el.rendered

\* A card rendered large has been toggled twice and is large again.
C6_Witness ==
    \E i \in DOMAIN cards :
        /\ cards[i].clicks = 2
        /\ cards[i].big = PROJECT_STATE_LARGE
        /\ SizeState(cards[i]) = <<"1", {"project-box", "project-large"}>>

(***************************************************************************)
(* Claims about the contact-form validation.                               *)
(***************************************************************************)
\* The text is absent or blank after trimming.
IsBlank(x) == x \in {Null, Undefined} \/ \A i \in 1..Len(x) : x[i] \in WhiteSpace

\* The rules of the validation, in order, and the message of each.
RuleMessage ==
    <<"Name is required",
      "Company is required",
      "Please provide either an email or phone number",
      "Please provide a valid email address",
      "Please provide a valid phone number (French +33 or international format)">>

\* The call's arguments violate rule r.
Violates(r, a) ==
    CASE r = 1 -> IsBlank(a.name)
      [] r = 2 -> IsBlank(a.company)
      [] r = 3 -> IsBlank(a.email) /\ IsBlank(a.phoneNumber)
      [] r = 4 -> ~IsBlank(a.email) /\ ~isValidEmail(a.email)
      [] r = 5 -> ~IsBlank(a.phoneNumber) /\ ~isValidPhoneNumber(a.phoneNumber)

Violated(a) == {r \in 1..5 : Violates(r, a)}

Earliest(rules) == CHOOSE r \in rules : \A q \in rules : r <= q

\* C7: a rejected call has emitted exactly one error, the message of the
\* earliest rule (name, company, contact method, email format, phone format)
\* its arguments violate.
C7_FirstFailingRule ==
    (formCall # <<>> /\ formResult = <<>>)
        => /\ Violated(formCall[1]) # {}
           /\ formErrors = <<RuleMessage[Earliest(Violated(formCall[1]))]>>

\* A call with a blank name, a blank company and an invalid email is rejected
\* with the name-required error.
C7_Witness ==
    /\ formCall # <<>>
    /\ formResult = <<>>
    /\ {1, 2, 4} \subseteq Violated(formCall[1])
    /\ formErrors = <<"Name is required">>

\* C8: a submission is returned only if every rule passed, and a call that
\* emitted an error returned false.
C8_OnlyIfAllRulesPass ==
    formCall # <<>>
        => /\ formResult # <<>> =>
                 /\ Violated(formCall[1]) = {}
                 /\ formErrors = <<>>
                 /\ formResult[1].success
                 /\ ~IsBlank(formResult[1].name)
                 /\ ~IsBlank(formResult[1].company)
                 /\ ~IsBlank(formResult[1].email) \/ ~IsBlank(formResult[1].phoneNumber)
                 /\ ~IsBlank(formResult[1].email) => isValidEmail(formResult[1].email)
                 /\ ~IsBlank(formResult[1].phoneNumber)
                       => isValidPhoneNumber(formResult[1].phoneNumber)
           /\ formErrors # <<>> => formResult = <<>>

\* A call with a valid email and a valid phone number is accepted.
C8_Witness ==
    /\ formResult # <<>>
    /\ formResult[1].email = <<"a", "@", "b", ".", "c">>
    /\ formResult[1].phoneNumber = <<"0", "6", "1", "2", "3", "4", "5", "6", "7", "8">>

\* C9: on success a blank comment is replaced by "{name} from {company} was
\* interested in your portfolio", built from the submission's name and
\* company, and a comment that is not blank is returned unchanged.
C9_DefaultComment ==
    formResult # <<>>
        => LET sub == formResult[1]
           IN sub.finalComment =
                 IF IsBlank(formCall[1].comment)
                 THEN sub.name \o FromText \o sub.company \o InterestedText
                 ELSE formCall[1].comment

\* The text neither begins nor ends with white space.
Trimmed(x) == x = <<>> \/ (x[1] \notin WhiteSpace /\ x[Len(x)] \notin WhiteSpace)

\* C10 as stated: on success every text field of the submission is trimmed.
C10_AllFieldsTrimmed ==
    formResult # <<>>
        => LET sub == formResult[1]
           IN /\ Trimmed(sub.name) /\ Trimmed(sub.company)
              /\ Trimmed(sub.email) /\ Trimmed(sub.phoneNumber)
              /\ Trimmed(sub.finalComment)

\* t is x without the white space it begins and ends with (the empty text for
\* an absent x).
IsTrimOf(t, x) ==
    IF x \in {Null, Undefined} THEN t = <<>>
    ELSE /\ Trimmed(t)
         /\ \E i, j \in 0..Len(x) :
               /\ i + Len(t) + j = Len(x)
               /\ SubSeq(x, i + 1, i + Len(t)) = t
               /\ \A n \in (1..i) \cup ((Len(x) - j + 1)..Len(x)) : x[n] \in WhiteSpace

\* C10 amended: on success name, company, email and phoneNumber are the
\* arguments trimmed (an absent email or phone being the empty text); the
\* comment is not trimmed: a comment that is not blank is returned as given.
C10_ContactFieldsTrimmed ==
    formResult # <<>>
        => LET sub == formResult[1]
               a == formCall[1]
           IN /\ IsTrimOf(sub.name, a.name)
              /\ IsTrimOf(sub.company, a.company)
              /\ IsTrimOf(sub.email, a.email)
              /\ IsTrimOf(sub.phoneNumber, a.phoneNumber)
              /\ ~IsBlank(a.comment) => sub.finalComment = a.comment

\* An accepted call whose name, company, email, phone number and comment all
\* came with white space around them.
C10_Witness ==
    /\ formResult # <<>>
    /\ formCall[1].name = <<" ", "J", "o", "\t">>
    /\ formCall[1].company = <<"A", "c", " ">>
    /\ formCall[1].email = <<" ", "a", "@", "b", ".", "c", " ">>
    /\ Len(formCall[1].phoneNumber) = 15
    /\ formCall[1].comment = <<" ", "h", "i", " ">>
    /\ formResult[1].name = <<"J", "o">>
    /\ formResult[1].finalComment = <<" ", "h", "i", " ">>

(***************************************************************************)
(* Claims about isValidPhoneNumber.                                        *)
(***************************************************************************)
\* The phone without its spaces, dashes, dots and parentheses.
Stripped(phone) ==
    SelectSeq(phone, LAMBDA c : c \notin WhiteSpace \cup {"-", ".", "(", ")"})

\* s is n digits.
IsDigits(s, n) == Len(s) = n /\ \A i \in 1..Len(s) : s[i] \in Digits

\* s is the lead followed by nine digits whose first is 1-9.
FrenchAfter(lead, s) ==
    /\ Len(s) = Len(lead) + 9
    /\ SubSeq(s, 1, Len(lead)) = lead
    /\ IsDigits(SubSeq(s, Len(lead) + 1, Len(s)), 9)
    /\ s[Len(lead) + 1] # "0"

FrenchNumber(s) == FrenchAfter(<<"0">>, s) \/ FrenchAfter(<<"+", "3", "3">>, s)

\* s is + followed by a country code of 2-3 digits and 6-14 further digits.
InternationalNumber(s) ==
    /\ s # <<>> /\ s[1] = "+"
    /\ \E cc \in 2..3, rest \in 6..14 : IsDigits(Tail(s), cc + rest)

\* The only-a-phone-number submission of this phone is rejected as an invalid phone.
RejectedAsInvalidPhone(phone) ==
    LET r == validateContactForm(<<"J", "o">>, <<>>, phone, <<"A", "c">>, <<>>)
    IN /\ r.result = <<>>
       /\ r.errors =
            <<"Please provide a valid phone number (French +33 or international format)">>

MailCalls == 1..mailCalls

\* The positions of the log where call c did ev.
At(c, ev) == {i \in DOMAIN mailLog : mailLog[i].call = c /\ mailLog[i].ev = ev}

\* The target call c was given, and whether emailjs was defined at the call.
TargetOf(c) == mailLog[CHOOSE i \in At(c, "sendEmail") : TRUE].data[1]

LoadedAt(c) == mailLog[CHOOSE i \in At(c, "sendEmail") : TRUE].text = "object"

\* The notifications call c has shown so far: <<kind, text>>, in order.
NotificationsOf(c) ==
    LET shown == SelectSeq(mailLog, LAMBDA x : x.call = c /\ x.ev
                                \in {"showError", "showSuccess", "showInfo"})
    IN [i \in DOMAIN shown |-> <<shown[i].ev, shown[i].text>>]

\* All three credentials are set and none is its placeholder.
Configured ==
    /\ serviceID \notin {"", "service_id"}
    /\ templateID \notin {"", "template_id"}
    /\ publicKey \notin {"", "public_key"}

PreviewOnly ==
    <<"showInfo", "Preview only - no email was sent. EmailJS is not configured.">>

\* The target is absent or is not a syntactically valid email.
BadTarget(target) == target \in {Null, Undefined, <<>>} \/ ~isValidEmail(target)

\* C12 as stated: emailjs.send is reached only with all three credentials set
\* and none a placeholder; otherwise the call makes no delivery call and shows
\* the informational preview-only notification.
C12_PreviewWhenUnconfigured ==
    \A c \in MailCalls :
        /\ At(c, "emailjs.send") # {} => Configured
        /\ ~Configured => /\ At(c, "emailjs.send") = {}
                          /\ NotificationsOf(c) = <<PreviewOnly>>

\* C12 amended: emailjs.send is reached only with all three credentials set and
\* none a placeholder; otherwise no delivery call is made, and the call shows
\* the informational preview-only notification if it passed the checks made
\* before the credentials (emailjs is loaded, the target is a valid email) and
\* an error notification if it did not.
C12_NoDeliveryUnconfigured ==
    \A c \in MailCalls :
        /\ At(c, "emailjs.send") # {} => Configured
        /\ ~Configured =>
              /\ At(c, "emailjs.send") = {}
              /\ Len(NotificationsOf(c)) = 1
              /\ IF LoadedAt(c) /\ ~BadTarget(TargetOf(c))
                 THEN NotificationsOf(c) = <<PreviewOnly>>
                 ELSE NotificationsOf(c)[1][1] = "showError"

\* With an empty service id and the two other credentials set, a call with a
\* valid target has shown the preview-only notification.
C12_Witness ==
    /\ serviceID = "" /\ templateID = "template_x" /\ publicKey = "key_x"
    /\ mailCalls = 1
    /\ ~BadTarget(TargetOf(1))
    /\ NotificationsOf(1) = <<PreviewOnly>>

\* C13: a call whose target is absent or not a valid email shows one error
\* notification, makes no delivery attempt and does not initialise the email API.
C13_FailFastOnBadTarget ==
    \A c \in MailCalls :
        BadTarget(TargetOf(c))
            => /\ Len(NotificationsOf(c)) = 1
               /\ NotificationsOf(c)[1][1] = "showError"
               /\ At(c, "emailjs.send") = {}
               /\ At(c, "emailjs.init") = {}
               /\ c \notin outstanding

\* With the library loaded and the credentials configured, a call with an
\* invalid target was rejected before the email API was initialised.
C13_Witness ==
    /\ Configured
    /\ mailCalls = 1
    /\ LoadedAt(1)
    /\ TargetOf(1) = <<"a", "b", ".", "c">>
    /\ NotificationsOf(1) = <<<<"showError", "Invalid recipient email address.">>>>
    /\ ~emailJsInitialized

\* C14: every call issues at most one emailjs.send; the rejection of a delivery
\* is followed at once by the error notification, and by no further
\* emailjs.send of that call.
C14_AtMostOnce ==
    \A c \in MailCalls :
        /\ Cardinality(At(c, "emailjs.send")) <= 1
        /\ \A i \in At(c, "rejected") :
              /\ i < Len(mailLog)
              /\ mailLog[i + 1].call = c
              /\ mailLog[i + 1].ev = "showError"
              /\ \A j \in At(c, "emailjs.send") : j < i
              /\ c \notin outstanding

\* The first call's delivery has failed, its error is shown and nothing of
\* that call is in flight; a second call was made since.
C14_Witness ==
    /\ mailCalls = 2
    /\ At(1, "rejected") # {}
    /\ NotificationsOf(1) = <<<<"showError", "Failed to send email. Please try again later.">>>>
    /\ At(2, "emailjs.send") # {}
    /\ outstanding = {2}

\* The outcome notifications: the success and the failure of a delivery.
OutcomeSuccess == <<"showSuccess", "Email sent successfully!">>

OutcomeFailure == <<"showError", "Failed to send email. Please try again later.">>

\* mailLog[i] is the notification n of call c.
Notifies(i, c, n) ==
    /\ i \in DOMAIN mailLog
    /\ mailLog[i].call = c
    /\ <<mailLog[i].ev, mailLog[i].text>> = n

\* Every outcome notification of a call comes after the call's emailjs.send; a
\* fulfilled delivery is followed by the success notification and the call of
\* resetContactForm, a rejected one by the error notification and no reset.
C15_OutcomeInLog ==
    \A c \in MailCalls :
        /\ \A j \in DOMAIN mailLog :
              (Notifies(j, c, OutcomeSuccess) \/ Notifies(j, c, OutcomeFailure))
                  => \E i \in At(c, "emailjs.send") : i < j
        /\ \A i \in At(c, "fulfilled") :
              /\ Notifies(i + 1, c, OutcomeSuccess)
              /\ i + 2 \in At(c, "resetContactForm")
              /\ NotificationsOf(c) = <<OutcomeSuccess>>
        /\ \A i \in At(c, "rejected") :
              /\ Notifies(i + 1, c, OutcomeFailure)
              /\ At(c, "resetContactForm") = {}
              /\ NotificationsOf(c) = <<OutcomeFailure>>

\* A step in which resetContactForm is called leaves the form of the document,
\* if it has one, empty; a step in which a delivery fails leaves the form as
\* it is.
C15_FormReset ==
    /\ (Len(mailLog') > Len(mailLog) /\ mailLog'[Len(mailLog')].ev = "resetContactForm")
           => contactForm' = IF contactForm = "absent" THEN "absent" ELSE "empty"
    /\ (Len(mailLog') > Len(mailLog) /\ mailLog'[Len(mailLog') - 1].ev = "rejected")
           => contactForm' = contactForm

\* C15: for every dispatched submission the outcome notification comes after
\* that submission's emailjs.send call; a successful delivery produces the
\* success notification and a form reset, a failed delivery the error
\* notification and no form reset.
C15_OutcomeAfterDispatch == []C15_OutcomeInLog /\ [][C15_FormReset]_vars

\* Two deliveries: the first failed and left the form filled, the second
\* succeeded and the form is empty.
C15_Witness ==
    /\ mailCalls = 2
    /\ NotificationsOf(1) = <<OutcomeFailure>>
    /\ NotificationsOf(2) = <<OutcomeSuccess>>
    /\ mailLog[Len(mailLog)].ev = "resetContactForm"
    /\ contactForm = "empty"

\* C16: at every moment at most one delivery is in flight: while an
\* emailjs.send is outstanding no second one is issued.
C16_OneInFlight == Cardinality(outstanding) <= 1

\* The host is neither localhost nor 127.0.0.1.
NotLocal == hostname \notin {"localhost", "127.0.0.1"}

\* The positions of the log where something was written to the console.
ConsoleWrites ==
    {i \in DOMAIN mailLog :
        mailLog[i].ev \in {"console.log", "console.warn", "console.error"}}

\* C17 as stated: with unconfigured credentials on a host that is not local, no
\* call writes a value of its payload to the console, and every call shows a
\* notification; the would-be payload is logged only on a local host.
C17_NoPayloadInLog ==
    /\ (~Configured /\ NotLocal)
          => /\ \A i \in ConsoleWrites : mailLog[i].data = <<>>
             /\ \A c \in MailCalls : NotificationsOf(c) # <<>>
    /\ \A i \in ConsoleWrites :
          (mailLog[i].ev = "console.log" /\ mailLog[i].data # <<>>) => ~NotLocal

\* C17 amended: with unconfigured credentials on a host that is not local, a
\* call writes nothing that depends on the title or the body to the console,
\* and writes its target only when it rejects it as invalid (the error line
\* 'Invalid target email:'); every call shows a notification; the would-be
\* payload is logged only on a local host, by a call that found the
\* credentials unconfigured.
C17_NoPayloadButBadTarget ==
    /\ (~Configured /\ NotLocal)
          => /\ \A i \in ConsoleWrites :
                   \/ mailLog[i].data = <<>>
                   \/ /\ mailLog[i].text = "Invalid target email:"
                      /\ mailLog[i].data = <<TargetOf(mailLog[i].call)>>
                      /\ BadTarget(TargetOf(mailLog[i].call))
             /\ \A c \in MailCalls : Len(NotificationsOf(c)) = 1
    /\ \A i \in ConsoleWrites :
          (mailLog[i].ev = "console.log" /\ mailLog[i].data # <<>>)
              => ~NotLocal /\ ~Configured

\* On example.org with placeholder credentials a call with a valid target has
\* shown the preview-only notification, and only the warnings were written.
C17_Witness ==
    /\ hostname = "example.org"
    /\ ~Configured
    /\ mailCalls = 1
    /\ ~BadTarget(TargetOf(1))
    /\ NotificationsOf(1) = <<PreviewOnly>>
    /\ ConsoleWrites # {}
    /\ \A i \in ConsoleWrites : mailLog[i].ev = "console.warn"

(***************************************************************************)
(* Claims about developProject.                                            *)
(***************************************************************************)
\* The text is empty or not a string.
NotText(x) == x = <<>> \/ x \in {Null, Undefined, NotAString}

\* The arguments violate a precondition of developProject.
ViolatesPrecondition(a) ==
    \/ a.big \notin {1, 0}
    \/ a.type \notin {1, 0}
    \/ NotText(a.category) \/ NotText(a.shortInfo) \/ NotText(a.longInfo)
    \/ a.skillList = NotAnArray

\* C18: a call violating a precondition returns the empty string and reports
\* an error, without throwing; a call satisfying them all returns markup.
C18_RejectsOrRenders ==
    devCall # <<>>
        => LET r == devResult[1]
           IN IF ViolatesPrecondition(devCall[1])
              THEN r.html = <<>> /\ r.error # "" /\ r.threw = ""
              ELSE r.html # <<>> /\ r.error = "" /\ r.threw = ""

\* C19: the markup of a valid call shows the escaped longInfo if big is LARGE
\* and the escaped shortInfo otherwise, has the class project-large if big is
\* LARGE and project-small otherwise, never both, and data-expanded is big.
C19_MarkupAgrees ==
    (devCall # <<>> /\ devResult[1].html # <<>>)
        => LET a == devCall[1]
               el == devResult[1].html[1]
               large == a.big = PROJECT_STATE_LARGE
           IN /\ el.content = escapeHtml(IF large THEN a.longInfo ELSE a.shortInfo)
              /\ ("project-large" \in el.classes) <=> large
              /\ ("project-small" \in el.classes) <=> ~large
              /\ el.expanded = (IF large THEN "1" ELSE "0")
              /\ el.expanded = NumberToString(a.big)

\* A small card has been rendered: it shows the short text, escaped.
C19_Witness ==
    /\ devCall # <<>>
    /\ devCall[1].big = PROJECT_STATE_SMALL
    /\ devResult[1].html # <<>>
    /\ devResult[1].html[1].content = <<"&", "l", "t", ";", "s", "&", "g", "t", ";">>
    /\ devResult[1].html[1].classes = {"project-box", "project-small"}

(***************************************************************************)
(* Claims about highlightSkill.                                            *)
(***************************************************************************)
\* C20: for every skill highlightSkill processes, the selector it builds from
\* safeCssEscape(normalizeSkillKey(skill)) matches exactly the elements that
\* developProject rendered for that skill: every one of them, and no element
\* rendered for another skill; with and without CSS.escape. (The elements are
\* those the document held at the call.)
C20_SelectorMatchesOwnTags ==
    hover # <<>>
        => \A n \in DOMAIN hover[1].matched :
              hover[1].matched[n] =
                  {i \in 1..hover[1].elements :
                      skillElements[i].skill = hover[1].skillList[n]}

\* The document holds a tag of C++ and a tag of C%2B%2B, and hovering C++
\* without CSS.escape has matched, and highlighted, the first one only.
C20_Witness ==
    /\ hover # <<>>
    /\ hover[1].skillList = <<<<"C", "+", "+">>>>
    /\ ~hover[1].hasCssEscape
    /\ hover[1].matched = <<{1}>>
    /\ hover[1].elements = 2
    /\ Len(skillElements) = 2
    /\ skillElements[1].highlighted
    /\ skillElements[2].skill = <<"C", "%", "2", "B", "%", "2", "B">>
    /\ ~skillElements[2].highlighted


(***************************************************************************)
(* Claims about escapeHtml.                                                *)
(***************************************************************************)
\* The five characters escapeHtml replaces and the entity of each.
Specials == {"&", "<", ">", "\"", "'"}

Entities ==
    {<<"&", <<"&", "a", "m", "p", ";">>>>,
     <<"<", <<"&", "l", "t", ";">>>>,
     <<">", <<"&", "g", "t", ";">>>>,
     <<"\"", <<"&", "q", "u", "o", "t", ";">>>>,
     <<"'", <<"&", "#", "0", "3", "9", ";">>>>}

StartsWith(s, prefix) ==
    Len(s) >= Len(prefix) /\ SubSeq(s, 1, Len(prefix)) = prefix

\* What an HTML parser reads from escaped text: each of the five character
\* references is the character it names, everything else is itself.
RECURSIVE Unescaped(_)
Unescaped(s) ==
    IF s = <<>> THEN <<>>
    ELSE IF \E e \in Entities : StartsWith(s, e[2])
    THEN LET e == CHOOSE x \in Entities : StartsWith(s, x[2])
         IN <<e[1]>> \o Unescaped(SubSeq(s, Len(e[2]) + 1, Len(s)))
    ELSE <<Head(s)>> \o Unescaped(Tail(s))

\* Where character i of the text stands in the output, each special character
\* before it taking the length of its entity.
RECURSIVE PlaceOf(_, _)
PlaceOf(text, i) ==
    IF i = 1 THEN 1
    ELSE PlaceOf(text, i - 1)
            + (IF text[i - 1] \in Specials
               THEN Len((CHOOSE e \in Entities : e[1] = text[i - 1])[2])
               ELSE 1)

\* C21: for every text, escapeHtml's output holds no raw <, >, double quote or
\* single quote; every & in it starts one of the five entities; un-escaping it
\* gives the text back; every character other than the five stands unchanged at
\* its place; and null or undefined gives the empty string.
C21_EscapeHtml ==
    escCall # <<>> =>
        LET text == escCall[1]
            out == escResult
        IN /\ \A i \in DOMAIN out : out[i] \notin {"<", ">", "\"", "'"}
           /\ \A i \in DOMAIN out :
                  out[i] = "&" =>
                      \E e \in Entities : StartsWith(SubSeq(out, i, Len(out)), e[2])
           /\ IF text \in {Null, Undefined}
              THEN out = <<>>
              ELSE /\ Unescaped(out) = text
                   /\ \A i \in DOMAIN text :
                          text[i] \notin Specials => out[PlaceOf(text, i)] = text[i]

\* escapeHtml('&lt;') has returned '&amp;lt;'.
C21_Witness ==
    /\ escCall = <<<<"&", "l", "t", ";">>>>
    /\ escResult = <<"&", "a", "m", "p", ";", "l", "t", ";">>


(***************************************************************************)
(* Claims about the card ids.                                              *)
(***************************************************************************)
\* C22: any two successful developProject calls of a page return markup with
\* different root ids, whether the ids are UUIDs or the time and the counter,
\* also when the two calls read the same millisecond.
C22_IdsUnique ==
    \A i, j \in DOMAIN ids : i # j => ids[i].id # ids[j].id

\* Two successful calls without crypto.randomUUID in the same millisecond.
C22_Witness ==
    /\ ~hasCrypto
    /\ Len(ids) >= 2
    /\ ids[1].at = ids[2].at
    /\ ids[1].id = <<"p", "r", "o", "j", "e", "c", "t", "-", "4", "1", "-", "1">>


(***************************************************************************)
(* Claims about the language switch.                                       *)
(***************************************************************************)
\* s ends in the suffix, letter for letter.
EndsWith(s, suffix) ==
    Len(s) >= Len(suffix) /\ SubSeq(s, Len(s) - Len(suffix) + 1, Len(s)) = suffix

PathOf(href) == parseURL(href).pathname

\* The path with -fr put immediately before its last five characters (.html).
WithFr(p) ==
    SubSeq(p, 1, Len(p) - 5) \o <<"-", "f", "r">> \o SubSeq(p, Len(p) - 4, Len(p))

\* Call i switched to French from a path for which plain holds: the new path is
\* the old one with -fr before .html, and an English switch right after it
\* gives the old path back.
FrenchRoundTrip(i, plain) ==
    LET c == langLog[i]
        p == PathOf(c.from)
    IN (c.lang = LANGUAGE_FRENCH /\ plain)
        => /\ PathOf(c.to) = WithFr(p)
           /\ (i + 1 \in DOMAIN langLog /\ langLog[i + 1].lang = LANGUAGE_ENGLISH)
                  => PathOf(langLog[i + 1].to) = p

\* Call i switched to French from a path ending in -fr.html: nothing changes.
NoDoubleSuffix(i) ==
    LET c == langLog[i]
    IN (c.lang = LANGUAGE_FRENCH /\ EndsWith(PathOf(c.from), FrDotHtml))
        => c.to = c.from /\ ~c.navigated

\* C23 as stated: for every path p ending in .html and not in -fr.html, the
\* switch to French gives p with -fr immediately before .html and the switch
\* of that to English gives p back; the switch to French of a path ending in
\* -fr.html leaves it unchanged.
C23_LocaleRoundTrip ==
    \A i \in DOMAIN langLog :
        /\ FrenchRoundTrip(i, /\ EndsWith(PathOf(langLog[i].from), DotHtml)
                              /\ ~EndsWith(PathOf(langLog[i].from), FrDotHtml))
        /\ NoDoubleSuffix(i)

\* C23, amended: the same for every path p ending in .html and not ending in
\* -fr.html in any letter case (a path ending in -FR.html is French already
\* for the code, which leaves it unchanged).
C23_LocaleRoundTripAnyCase ==
    \A i \in DOMAIN langLog :
        /\ FrenchRoundTrip(i, /\ EndsWith(PathOf(langLog[i].from), DotHtml)
                              /\ ~TestSuffixIgnoringCase(PathOf(langLog[i].from),
                                                         FrDotHtml))
        /\ NoDoubleSuffix(i)

\* /p.html?q=1#a was switched to French and then back to English.
C23_Witness ==
    /\ Len(langLog) = 2
    /\ langLog[1].lang = LANGUAGE_FRENCH
    /\ langLog[1].from = Origin \o <<"/", "p">> \o DotHtml \o <<"?", "q", "=", "1", "#", "a">>
    /\ PathOf(langLog[1].to) = <<"/", "p">> \o FrDotHtml
    /\ langLog[2].lang = LANGUAGE_ENGLISH
    /\ PathOf(location) = <<"/", "p">> \o DotHtml

\* The index page a path that is no page is defaulted to.
Defaulted(p) ==
    (IF p # <<>> /\ p[Len(p)] = "/" THEN p ELSE p \o <<"/">>)
        \o <<"i", "n", "d", "e", "x">> \o DotHtml

\* Call i changed nothing but the path, navigated only if the path changed and
\* only for a valid language, and, from a path for which noPage holds, went to
\* the index page of that path in the language asked for.
OnlyThePath(i, noPage) ==
    LET c == langLog[i]
        u == parseURL(c.from)
        v == parseURL(c.to)
    IN /\ c.navigated => v.query = u.query /\ v.fragment = u.fragment
       /\ c.navigated <=> v.pathname # u.pathname
       /\ ~c.navigated => c.to = c.from
       /\ c.lang \notin {LANGUAGE_ENGLISH, LANGUAGE_FRENCH} => ~c.navigated
       /\ (c.lang \in {LANGUAGE_ENGLISH, LANGUAGE_FRENCH} /\ noPage)
            => v.pathname = IF c.lang = LANGUAGE_ENGLISH THEN Defaulted(u.pathname)
                            ELSE WithFr(Defaulted(u.pathname))

\* C24 as stated: switchLanguage changes only the path: when it navigates, the
\* query string and the fragment of the new URL are those of the current one;
\* it does not navigate when the target path is the current path, nor when lang
\* is neither ENGLISH nor FRENCH; a path not ending in .html is first defaulted
\* to its index.html page.
C24_OnlyPathChanges ==
    \A i \in DOMAIN langLog :
        OnlyThePath(i, ~EndsWith(PathOf(langLog[i].from), DotHtml))

\* C24, amended: the same, the defaulting being that of a path not ending in
\* .html in any letter case (a path ending in .HTML is a page for the code).
C24_OnlyPathChangesAnyCase ==
    \A i \in DOMAIN langLog :
        OnlyThePath(i, ~TestSuffixIgnoringCase(PathOf(langLog[i].from), DotHtml))

\* switchLanguage(ENGLISH) at /d?q=1#a has navigated to /d/index.html?q=1#a.
C24_Witness ==
    /\ Len(langLog) >= 1
    /\ langLog[1].lang = LANGUAGE_ENGLISH
    /\ langLog[1].navigated
    /\ langLog[1].from = Origin \o <<"/", "d", "?", "q", "=", "1", "#", "a">>
    /\ langLog[1].to = Origin \o <<"/", "d", "/", "i", "n", "d", "e", "x">> \o DotHtml
                            \o <<"?", "q", "=", "1", "#", "a">>


(***************************************************************************)
(* Claims about the hover listeners.                                       *)
(***************************************************************************)
\* The keys of the skills of a list.
KeysOf(skillList) == {normalizeSkillKey(skillList[n]) : n \in DOMAIN skillList}

\* C25: while a box bound with attachHighlightListeners is hovered, from its
\* mouseenter until its own mouseleave, every skill tag (of those in the
\* document at the mouseenter) whose key belongs to the box's skill list is
\* highlighted, whatever enter and leave events other bound boxes get
\* meanwhile, boxes sharing a skill included.
C25_HighlightedWhileHovered ==
    \A i \in DOMAIN bindings :
        bindings[i].active =>
            \A e \in 1..bindings[i].elements :
                skillElements[e].dataSkill \in KeysOf(bindings[i].skillList)
                    => skillElements[e].highlighted

\* The highlight state is the one binding every box and list once gives.
C26_SameAsBoundOnce == skillElements = onceElements

\* A call of attachHighlightListeners for an id no box of the document has
\* registers no listener and changes no highlight state.
C26_AbsentCardIgnored ==
    (lastAttach' # lastAttach /\ lastAttach'[1].projectId \notin DOMAIN boxes)
        => /\ bindings' = bindings
           /\ skillElements' = skillElements
           /\ lastAttach'[1].outcome # "registered"

\* C26: after every sequence of enter and leave events the highlight state
\* with the listeners of a box and skill list bound twice is the one with them
\* bound once; and binding for a card id that is not in the document registers
\* no listener and changes no highlight state.
C26_IdempotentBinding == []C26_SameAsBoundOnce /\ [][C26_AbsentCardIgnored]_vars

\* Box 1 is bound twice with the same list and hovered: both mouseenter
\* listeners ran and its tag is highlighted.
C26_Witness ==
    /\ Len(bindings) = 2
    /\ bindings[1].box = 1 /\ bindings[2].box = 1
    /\ bindings[1].skillList = bindings[2].skillList
    /\ bindings[1].active /\ bindings[2].active
    /\ hovered = {1}
    /\ skillElements[1].highlighted
    /\ lastAttach # <<>> /\ lastAttach[1].outcome = "warned"


(***************************************************************************)
(* Claims about the initialisation and the card toggles.                   *)
(***************************************************************************)
\* The document has at most one click listener of initProjectToggle.
C27_AtMostOneHandler == clickHandlers <= 1

\* A click, once the initialisation has run: in a card, it flips that card
\* once and leaves the others; outside every card, it changes no card.
C27_ClickFlipsOnce ==
    (clickCount' = clickCount + 1 /\ isInitialized) =>
        LET target == lastClick'[1]
        IN IF target \in DOMAIN cards
           THEN /\ cards'[target].clicks = cards[target].clicks + 1
                /\ cards'[target].expanded # cards[target].expanded
                /\ \A j \in DOMAIN cards : j # target => cards'[j] = cards[j]
           ELSE cards' = cards

\* C27: however often init and initProjectToggle run, the delegated click
\* handler is registered at most once, so a click inside a project box flips
\* that box exactly once and a click outside every box changes no card.
C27_ClickHandledOnce == []C27_AtMostOneHandler /\ [][C27_ClickFlipsOnce]_vars

\* init ran again after the initialisation and warned; a click in card 1 has
\* flipped it once.
C27_Witness ==
    /\ isInitialized /\ initWarned
    /\ clickHandlers = 1
    /\ lastClick = <<1>>
    /\ Len(cards) >= 1
    /\ cards[1].clicks = 1
    /\ cards[1].expanded # cards[1].rendered[1]

\* Every card carries exactly one of project-large and project-small, and
\* project-large exactly when its data-expanded is '1'.
C28_OneSizeClass ==
    \A i \in DOMAIN cards :
        /\ ("project-large" \in cards[i].classes) # ("project-small" \in cards[i].classes)
        /\ ("project-large" \in cards[i].classes) <=> (cards[i].expanded = "1")

\* toggleProjectBox(null) changes no card and does not throw.
C28_NullIsNoOp ==
    (toggles' = toggles + 1 /\ lastToggle' # <<>> /\ lastToggle'[1].target = 0)
        => cards' = cards /\ ~lastToggle'[1].threw

\* C28: a card rendered by developProject carries, after any sequence of
\* toggleProjectBox calls, exactly one of the classes project-large and
\* project-small, and project-large if and only if data-expanded is '1';
\* toggleProjectBox on null changes no state and raises no error.
C28_SizeClassFollowsState == []C28_OneSizeClass /\ [][C28_NullIsNoOp]_vars

\* A card rendered small has been toggled twice and is small again, and the last
\* call passed null.
C28_Witness ==
    /\ Len(cards) >= 1
    /\ cards[1].big = PROJECT_STATE_SMALL
    /\ cards[1].clicks = 2
    /\ toggles = 3
    /\ lastToggle = <<[target |-> 0, threw |-> FALSE]>>
    /\ cards[1].classes = {"project-box", "project-small"}

(***************************************************************************)
(* Claims about sendEmail's notifications and the initialisation of the    *)
(* email API.                                                              *)
(***************************************************************************)
\* Call c returned before the delivery: the library was missing, the target
\* invalid or the credentials unconfigured.
ReturnedEarly(c) == ~LoadedAt(c) \/ BadTarget(TargetOf(c)) \/ ~Configured

\* C29: a sendEmail call never makes two notifications, and once it has
\* returned and the answer to its emailjs.send, if it made one, has arrived it
\* has made exactly one: an error if the library was missing, the target
\* invalid or the delivery rejected, an info if the credentials were
\* unconfigured, a success if the delivery was fulfilled.
C29_OneNotificationPerCall ==
    \A c \in MailCalls :
        /\ Len(NotificationsOf(c)) <= 1
        /\ c \notin outstanding =>
              /\ Len(NotificationsOf(c)) = 1
              /\ NotificationsOf(c)[1][1] =
                    IF ~LoadedAt(c) \/ BadTarget(TargetOf(c)) THEN "showError"
                    ELSE IF ~Configured THEN "showInfo"
                    ELSE IF At(c, "rejected") # {} THEN "showError"
                    ELSE "showSuccess"
              /\ NotificationsOf(c)[1][1] = "showSuccess" <=> At(c, "fulfilled") # {}

\* Two calls have been answered: the first delivery was fulfilled and showed
\* the success, the second was rejected and showed the error.
C29_Witness ==
    /\ mailCalls = 2
    /\ outstanding = {}
    /\ At(1, "fulfilled") # {}
    /\ At(2, "rejected") # {}
    /\ NotificationsOf(1) = <<<<"showSuccess", "Email sent successfully!">>>>
    /\ NotificationsOf(2)
         = <<<<"showError", "Failed to send email. Please try again later.">>>>

\* The positions of the log where some call did ev.
Anywhere(ev) == {i \in DOMAIN mailLog : mailLog[i].ev = ev}

\* C30: over all the calls emailjs.init is invoked at most once, every
\* emailjs.send comes after it, and no call that returned early (library
\* missing, target invalid, credentials unconfigured) invoked it.
C30_InitOnceBeforeSend ==
    /\ Cardinality(Anywhere("emailjs.init")) <= 1
    /\ \A i \in Anywhere("emailjs.send") : \E j \in Anywhere("emailjs.init") : j < i
    /\ \A c \in MailCalls : ReturnedEarly(c) => At(c, "emailjs.init") = {}
    /\ emailJsInitialized <=> Anywhere("emailjs.init") # {}

\* The first call initialised and sent, and the second sent without
\* initialising again.
C30_Witness ==
    /\ mailCalls = 2
    /\ At(1, "emailjs.init") # {}
    /\ At(1, "emailjs.send") # {}
    /\ At(2, "emailjs.init") = {}
    /\ At(2, "emailjs.send") # {}

====
